---- MODULE Spec2Model ----
(***************************************************************************)
(* Model of the pi-nes extension: the NES core wrapper (nes-core.ts), the  *)
(* session that drives it (nes-session.ts), SRAM persistence (saves.ts)    *)
(* and the /nes command and session_shutdown handlers (index.ts), the      *)
(* image renderer's transports (renderer.ts), and the two parts of the     *)
(* emulation core the specification pins down: NMI timing and the MMC1     *)
(* serial port.                                                            *)
(*                                                                         *)
(* A Uint8Array is modelled by its length and by the bytes at the tracked  *)
(* offsets (the first and the last byte of the 8 KiB battery RAM); every   *)
(* other byte is handled by the code exactly like a tracked one.           *)
(***************************************************************************)
EXTENDS Integers, Sequences, FiniteSets, TLC

(***************************************************************************)
(* Program constants                                                       *)
(***************************************************************************)
SRAM_SIZE == 8192

\* renderer.ts: FRAME_WIDTH * FRAME_HEIGHT * 3
RAW_FRAME_BYTES == 184320

SRAM_BASE == 24576

(***************************************************************************)
(* Bounds of the model                                                     *)
(***************************************************************************)
MaxWritesPerTick == 2

TrackedOffsets == {0, SRAM_SIZE - 1}

MaxCores == 2

\* Shared-memory handles the kitty-shm module creates in one run.
MaxHandles == 5

MaxCommands == 2

CoreIds == 1..MaxCores

\* The two instances the core API scenarios use.
HostCores == {1, 2}

\* The value the emulated CPU hands to onBatteryRamWrite (258 exercises & 0xff).
WriteValues == {258}

\* CPU addresses around both ends of the battery RAM window 0x6000-0x7FFF.
WriteAddresses == {SRAM_BASE - 1, SRAM_BASE, SRAM_BASE + SRAM_SIZE - 1, SRAM_BASE + SRAM_SIZE}

\* ROM images: one with battery RAM, one without, one that loadROM rejects.
Roms == {"zelda", "mario", "bad"}

NoRom == "none"

VARIABLES
    cores,        \* CoreIds -> JsnesCore fields (hasBatteryRam, sram, sramDirty, ...)
    romOf,        \* CoreIds -> the ROM image last loaded successfully, or NoRom
    heldSram,     \* the core whose live SRAM buffer the host holds from getSram(), or 0
    lastOp,       \* the last core API call made by the host (history)
    sessions,     \* CoreIds -> NesSession fields of the session that owns that core
    activeSession,\* index.ts activeSession: a session (core id) or NoSession
    cmd,          \* the /nes command handler in progress and where it awaits
    shut,         \* the session_shutdown handler: "idle", "awaitStop" or "done"
    files,        \* save files by ROM path: the bytes on disk, or NullBuf if absent
    hist,         \* history: counts of calls, errors seen
    image,        \* the NesImageRenderer and the kitty-shm handles it created
    ppu,          \* the picture unit of the emulation core: position in the frame, NMI
    mmc1,         \* the MMC1 mapper of the emulation core: serial port and registers
    cpu,          \* the CPU of the emulation core: interrupts, sprite DMA, dispatch
    call,         \* the last call of a function checked on its own: input, result
    overlay       \* the NesOverlayComponent: input, tap timers, image cleanup

vars == <<cores, romOf, heldSram, lastOp, sessions, activeSession, cmd, shut, files, hist, image, ppu, mmc1, cpu, call, overlay>>

coreVars == <<cores, romOf, heldSram, lastOp>>

sessionVars == <<sessions, activeSession, cmd, shut, files, hist>>

\* State the core wrapper and the session layer never touch.
otherVars == <<image, ppu, mmc1, cpu, call, overlay>>

(***************************************************************************)
(* Uint8Array                                                              *)
(***************************************************************************)
NullBuf == [isNull |-> TRUE, length |-> 0, cell |-> [o \in {} |-> 0]]

Uint8Array(n) ==
    [isNull |-> FALSE, length |-> n,
     cell |-> [o \in {t \in TrackedOffsets : t < n} |-> 0]]

\* buf.subarray(0, end)
subarray(buf, end) ==
    LET n == IF end < buf.length THEN end ELSE buf.length
    IN [isNull |-> FALSE, length |-> n,
        cell |-> [o \in {t \in DOMAIN buf.cell : t < n} |-> buf.cell[o]]]

\* dst.set(src): copies src over the start of dst; the rest of dst is kept.
TypedArraySet(dst, src) ==
    [dst EXCEPT !.cell = [o \in DOMAIN dst.cell |->
                            IF o < src.length THEN src.cell[o] ELSE dst.cell[o]]]

\* All Uint8Arrays of the given lengths with the given bytes at tracked offsets.
BuffersOf(lengths, bytes) ==
    UNION {{[isNull |-> FALSE, length |-> n, cell |-> f] :
              f \in [{t \in TrackedOffsets : t < n} -> bytes]} : n \in lengths}

(***************************************************************************)
(* JsnesCore (nes-core.ts)                                                 *)
(***************************************************************************)
RomHasBatteryRam(rom) == rom = "zelda"

RomLoads(rom) == rom # "bad"

NewJsnesCore ==
    [hasBatteryRam |-> FALSE, sram |-> NullBuf, sramDirty |-> FALSE,
     disposed |-> FALSE, ticked |-> FALSE]

\* Mutant: the cartridge fields are cleared before nes.loadROM throws.
loadRom_ClearsBeforeThrow(c, rom) ==
    IF ~RomLoads(rom)
    THEN [c EXCEPT !.hasBatteryRam = FALSE, !.sram = NullBuf, !.sramDirty = FALSE]
    ELSE IF RomHasBatteryRam(rom)
         THEN [c EXCEPT !.hasBatteryRam = TRUE,
                        !.sram = IF c.sram.isNull THEN Uint8Array(SRAM_SIZE) ELSE c.sram,
                        !.sramDirty = FALSE]
         ELSE [c EXCEPT !.hasBatteryRam = FALSE,
                        !.sram = NullBuf,
                        !.sramDirty = FALSE]

loadRom(c, rom) ==
    IF ~RomLoads(rom) THEN c
    ELSE IF RomHasBatteryRam(rom)
         THEN [c EXCEPT !.hasBatteryRam = TRUE,
                        !.sram = IF c.sram.isNull THEN Uint8Array(SRAM_SIZE) ELSE c.sram,
                        !.sramDirty = FALSE]
         ELSE [c EXCEPT !.hasBatteryRam = FALSE,
                        !.sram = NullBuf,
                        !.sramDirty = FALSE]

getSram(c) == IF c.hasBatteryRam THEN c.sram ELSE NullBuf

setSram_ShortCopy(c, data) ==
    IF ~c.hasBatteryRam THEN c
    ELSE LET s == IF c.sram.isNull THEN Uint8Array(SRAM_SIZE) ELSE c.sram
         IN [c EXCEPT !.sram = TypedArraySet(s, subarray(data, s.length - 1)),
                      !.sramDirty = FALSE]

setSram(c, data) ==
    IF ~c.hasBatteryRam THEN c
    ELSE LET s == IF c.sram.isNull THEN Uint8Array(SRAM_SIZE) ELSE c.sram
         IN [c EXCEPT !.sram = TypedArraySet(s, subarray(data, s.length)),
                      !.sramDirty = FALSE]

isSramDirty(c) == c.hasBatteryRam /\ c.sramDirty

markSramSaved(c) == [c EXCEPT !.sramDirty = FALSE]

\* Mutant: reset() also reallocates the battery RAM (power-on state).
reset_ZeroesSram(c) ==
    IF c.sram.isNull THEN c ELSE [c EXCEPT !.sram = Uint8Array(SRAM_SIZE)]

reset_ClearsDirty(c) == [c EXCEPT !.sramDirty = FALSE]

reset(c) == c

setButton(c) == c

dispose(c) == [c EXCEPT !.disposed = TRUE]

handleBatteryRamWrite_OffByOne(c, address, value) ==
    IF ~c.hasBatteryRam \/ c.sram.isNull THEN c
    ELSE LET offset == address - SRAM_BASE
         IN IF offset < 0 \/ offset >= c.sram.length - 1 THEN c
            ELSE [c EXCEPT !.sram.cell =
                              IF offset \in DOMAIN c.sram.cell
                              THEN [c.sram.cell EXCEPT ![offset] = value % 256]
                              ELSE c.sram.cell,
                           !.sramDirty = TRUE]

handleBatteryRamWrite(c, address, value) ==
    IF ~c.hasBatteryRam \/ c.sram.isNull THEN c
    ELSE LET offset == address - SRAM_BASE
         IN IF offset < 0 \/ offset >= c.sram.length THEN c
            ELSE [c EXCEPT !.sram.cell =
                              IF offset \in DOMAIN c.sram.cell
                              THEN [c.sram.cell EXCEPT ![offset] = value % 256]
                              ELSE c.sram.cell,
                           !.sramDirty = TRUE]

\* The battery RAM writes of one or more emulated frames, in order.
RECURSIVE ApplyWrites(_, _)
ApplyWrites(c, writes) ==
    IF writes = <<>> THEN c
    ELSE ApplyWrites(handleBatteryRamWrite(c, Head(writes)[1], Head(writes)[2]),
                     Tail(writes))

\* tick(): nes.frame() runs a frame, which calls onBatteryRamWrite per write.
tick(c, writes) == [ApplyWrites(c, writes) EXCEPT !.ticked = TRUE]

WriteSeqs ==
    UNION {[1..n -> WriteAddresses \X WriteValues] : n \in 0..MaxWritesPerTick}

InWindow(address) == address >= SRAM_BASE /\ address <= SRAM_BASE + SRAM_SIZE - 1

HitsWindow(writes) == \E i \in DOMAIN writes : InWindow(writes[i][1])

(***************************************************************************)
(* Time.  One unit is half a frame interval (1/120 s), so the intervals of *)
(* nes-session.ts and index.ts are whole numbers.  performance.now() is    *)
(* not stored: tick() only uses now - lastTickTime (the delta since the    *)
(* previous tick) and now - lastRenderTime (kept as sinceRender).          *)
(***************************************************************************)
DEFAULT_FRAME_INTERVAL_MS == 2

DEFAULT_RENDER_INTERVAL_MS == DEFAULT_FRAME_INTERVAL_MS

DEFAULT_MAX_CATCH_UP_FRAMES == 12

IMAGE_RENDER_INTERVAL_MS == 4

TEXT_RENDER_INTERVAL_MS == 2

\* Elapsed time between two tick callbacks: under one frame, one frame, and
\* a stall longer than the catch-up limit.
Deltas == {1, 2, 2 * DEFAULT_MAX_CATCH_UP_FRAMES + 2}

Min(a, b) == IF a < b THEN a ELSE b

(***************************************************************************)
(* saves.ts                                                                *)
(***************************************************************************)
\* ROM paths given to getSavePath on its own, besides Roms: the pair of the
\* tests, a relative spelling of the first, two paths whose SHA-1 digests
\* start with the same 8 hex digits, and a ROM of another name.
RomPaths ==
    {"/roms/Zelda.nes", "/other/Zelda.nes", "roms/Zelda.nes",
     "/roms/15181/Zelda.nes", "/roms/16810/Zelda.nes", "/roms/Mario.nes"}

SaveDirs == {"/saves", "/custom/saves"}

\* config.saveDir of the sessions
SaveDir == "/saves"

\* path.resolve(romPath), the working directory being "/"
resolve(romPath) ==
    CASE romPath = "roms/Zelda.nes" -> "/roms/Zelda.nes"
      [] romPath = "zelda" -> "/zelda"
      [] romPath = "mario" -> "/mario"
      [] romPath = "bad" -> "/bad"
      [] OTHER -> romPath

\* roms.ts getRomDisplayName: path.basename(romPath, path.extname(romPath))
getRomDisplayName(romPath) ==
    CASE romPath \in {"/roms/Zelda.nes", "/other/Zelda.nes", "roms/Zelda.nes",
                      "/roms/15181/Zelda.nes", "/roms/16810/Zelda.nes"} -> "Zelda"
      [] romPath = "/roms/Mario.nes" -> "Mario"
      [] OTHER -> romPath

\* createHash("sha1").update(resolved).digest("hex").slice(0, 8), as computed
\* for each of the paths above
sha1Hex8(resolved) ==
    CASE resolved = "/roms/Zelda.nes" -> "76d12c9e"
      [] resolved = "/other/Zelda.nes" -> "7caec973"
      [] resolved = "/roms/15181/Zelda.nes" -> "674af63b"
      [] resolved = "/roms/16810/Zelda.nes" -> "674af63b"
      [] resolved = "/roms/Mario.nes" -> "167538c8"
      [] resolved = "/zelda" -> "ab09ae77"
      [] resolved = "/mario" -> "125e0314"
      [] resolved = "/bad" -> "119aa816"

getSaveId(romPath) == sha1Hex8(resolve(romPath))

\* Mutant: the save file is named after the ROM only.
getSavePath_NameOnly(saveDir, romPath) ==
    [dir |-> saveDir, name |-> getRomDisplayName(romPath), hash |-> "", ext |-> ".sav"]

\* getSavePath: path.join(saveDir, `${romName}-${hash}.sav`), kept as its
\* parts (the name has no separator and the hash has 8 digits, so the parts
\* and the joined string determine each other).
getSavePath(saveDir, romPath) ==
    [dir |-> saveDir, name |-> getRomDisplayName(romPath),
     hash |-> getSaveId(romPath), ext |-> ".sav"]

\* The save files of the sessions' ROMs.
SavePaths == {getSavePath(SaveDir, p) : p \in Roms}

\* Mutant: the save file is never read.
loadSram_Ignores(fs, romPath, readable) == NullBuf

\* loadSram: the file's bytes, or null when it cannot be read.
loadSram(fs, romPath, readable) ==
    IF readable THEN fs[getSavePath(SaveDir, romPath)] ELSE NullBuf

\* saveSram, at the moment fs.writeFile writes: the bytes of the buffer.
saveSram(fs, romPath, data) ==
    [fs EXCEPT ![getSavePath(SaveDir, romPath)] =
        [isNull |-> FALSE, length |-> data.length, cell |-> data.cell]]

(***************************************************************************)
(* NesSession (nes-session.ts)                                             *)
(***************************************************************************)
NoSession == 0

\* A session object, with where its asynchronous calls stand:
\*   save       "idle" | "pending" (saveSram awaited, nothing written yet)
\*              | "written" (file written, the await has not resumed yet)
\*   saveForced the save in flight was started by stop()
\*   stopCaller who awaits the stop() that awaits the forced save
\* What the last tick() of a session did (history): accumulatedTime after
\* adding the delta, the number of core.tick() calls, whether it threw,
\* whether the render hook was called, and then the time since the previous
\* call (or since start()) and the render interval in force.
NoTick ==
    [acc |-> 0, frames |-> 0, threw |-> FALSE, rendered |-> FALSE,
     gap |-> 0, interval |-> 0]

NesSession(romPath) ==
    [exists |-> TRUE, romPath |-> romPath,
     renderIntervalMs |-> DEFAULT_RENDER_INTERVAL_MS,
     renderHook |-> FALSE, tickTimer |-> FALSE, saveTimer |-> FALSE,
     saveInFlight |-> FALSE, stopping |-> FALSE,
     accumulatedTime |-> 0, sinceRender |-> 0,
     save |-> "idle", saveForced |-> FALSE, stopCaller |-> "none",
     fileAtCreate |-> NullBuf, sramAtStart |-> NullBuf, tickedAtStart |-> FALSE,
     lastTick |-> NoTick]

NoSessionObject == [NesSession(NoRom) EXCEPT !.exists = FALSE]

start(s) ==
    IF s.tickTimer THEN s
    ELSE [s EXCEPT !.accumulatedTime = 0, !.sinceRender = 0,
                   !.tickTimer = TRUE, !.saveTimer = TRUE]

setRenderHook(s, hook) == [s EXCEPT !.renderHook = hook]

setRenderIntervalMs(s, intervalMs) ==
    [s EXCEPT !.renderIntervalMs = IF intervalMs > 0 THEN intervalMs ELSE 0]

\* Mutant: only a forced save is ever started.
saveIfNeeded_ForcedOnly(s, c, force) ==
    IF s.saveInFlight \/ ~force \/ getSram(c).isNull
    THEN [sess |-> s, started |-> FALSE]
    ELSE [sess |-> [s EXCEPT !.saveInFlight = TRUE, !.save = "pending",
                             !.saveForced = force],
          started |-> TRUE]

\* saveIfNeeded up to its await: the session, and whether saveSram was called.
saveIfNeeded(s, c, force) ==
    IF s.saveInFlight THEN [sess |-> s, started |-> FALSE]
    ELSE IF ~force /\ ~isSramDirty(c) THEN [sess |-> s, started |-> FALSE]
    ELSE IF getSram(c).isNull THEN [sess |-> s, started |-> FALSE]
    ELSE [sess |-> [s EXCEPT !.saveInFlight = TRUE, !.save = "pending",
                             !.saveForced = force],
          started |-> TRUE]

\* Mutant: stop() that leaves both interval timers set.
stop_KeepsTimers(s, c, caller) ==
    IF s.stopping THEN [sess |-> s, core |-> c, result |-> "returned"]
    ELSE LET s1 == [s EXCEPT !.stopping = TRUE]
             r == saveIfNeeded(s1, c, TRUE)
         IN IF r.started
            THEN [sess |-> [r.sess EXCEPT !.stopCaller = caller], core |-> c,
                  result |-> "pending"]
            ELSE [sess |-> r.sess, core |-> dispose(c), result |-> "disposed"]

\* stop() as far as it runs without waiting for the file system:
\*   "returned" it was already stopping; "pending" it awaits its forced
\*   save; "disposed" saveIfNeeded returned at once and the core is disposed.
stop(s, c, caller) ==
    IF s.stopping THEN [sess |-> s, core |-> c, result |-> "returned"]
    ELSE LET s1 == [s EXCEPT !.stopping = TRUE, !.tickTimer = FALSE,
                             !.saveTimer = FALSE]
             r == saveIfNeeded(s1, c, TRUE)
         IN IF r.started
            THEN [sess |-> [r.sess EXCEPT !.stopCaller = caller], core |-> c,
                  result |-> "pending"]
            ELSE [sess |-> r.sess, core |-> dispose(c), result |-> "disposed"]

\* tick(): the time bookkeeping; frames is the number of core.tick() calls.
\* Mutant: no catch-up limit.
tickFrames_NoCap(s, delta) ==
    LET acc == s.accumulatedTime + delta
        framesDue == acc \div DEFAULT_FRAME_INTERVAL_MS
    IN IF framesDue <= 0 THEN [frames |-> 0, accumulatedTime |-> acc]
       ELSE [frames |-> framesDue,
             accumulatedTime |-> acc - framesDue * DEFAULT_FRAME_INTERVAL_MS]

tickFrames(s, delta) ==
    LET acc == s.accumulatedTime + delta
        framesDue == acc \div DEFAULT_FRAME_INTERVAL_MS
    IN IF framesDue <= 0 THEN [frames |-> 0, accumulatedTime |-> acc]
       ELSE IF framesDue > DEFAULT_MAX_CATCH_UP_FRAMES
            THEN [frames |-> DEFAULT_MAX_CATCH_UP_FRAMES, accumulatedTime |-> 0]
            ELSE [frames |-> framesDue,
                  accumulatedTime |-> acc - framesDue * DEFAULT_FRAME_INTERVAL_MS]

\* tick(): whether the render hook is called at the end of this tick.
\* Mutant: no render throttle.
rendersNow_Unthrottled(s, delta) == s.renderHook

rendersNow(s, delta) ==
    s.renderHook /\ s.sinceRender + delta >= s.renderIntervalMs

SessionIdle ==
    /\ sessions = [k \in CoreIds |-> NoSessionObject]
    /\ activeSession = NoSession
    /\ cmd = [pc |-> "idle", arg |-> NoRom, romPath |-> NoRom, renderer |-> "image",
              sess |-> NoSession, core |-> 0, path |-> "none", result |-> "none",
              quit |-> FALSE, active1 |-> NoSession, calls0 |-> <<0, 0, 0>>]
    /\ shut = "idle"
    /\ hist = [nCreate |-> 0, nLoadRom |-> 0, nSetSram |-> 0, nCmd |-> 0,
               unhandled |-> FALSE, shutSess |-> NoSession]

(***************************************************************************)
(* NesImageRenderer (renderer.ts).  A shared-memory handle is the number   *)
(* of the createSharedMemory call that returned it; `closed` is the set of *)
(* handles closeSharedMemory was called on.  What a frame looks like and   *)
(* how it is scaled is left out: only the transport and the handles.       *)
(***************************************************************************)
\* getCapabilities().images
Caps == {"kitty", "iterm2", "none"}

\* module.createSharedMemory(RAW_FRAME_BYTES): throws, or returns a handle
\* whose buffer is too short, or one of full size.
CreateOutcomes == {"threw", "short", "full"}

byteLength(made) == IF made = "full" THEN RAW_FRAME_BYTES ELSE RAW_FRAME_BYTES - 1

\* What the last render() did (history).
NoFrame ==
    [caps |-> "none", transport |-> "none", handle |-> 0,
     disabledBefore |-> FALSE, create |-> "notTried", queueBefore |-> <<>>]

NewNesImageRenderer ==
    [kittyShmModule |-> "undefined",
     sharedMemoryModule |-> FALSE,
     sharedMemoryDisabled |-> FALSE,
     sharedMemoryQueue |-> <<>>,
     created |-> 0,
     closed |-> {},
     frame |-> NoFrame]

\* loads: require("./native/kitty-shm/index.js") succeeds with isAvailable.
getKittyShmModule(r, loads) ==
    IF r.kittyShmModule # "undefined" THEN r
    ELSE [r EXCEPT !.kittyShmModule = IF loads THEN "module" ELSE "null"]

\* Mutant: the disabled flag is not consulted.
getSharedMemoryModule_IgnoresDisabled(r, loads) ==
    IF r.sharedMemoryModule THEN [r |-> r, module |-> TRUE]
    ELSE LET g == getKittyShmModule(r, loads)
         IN IF g.kittyShmModule # "module"
            THEN [r |-> [g EXCEPT !.sharedMemoryDisabled = TRUE], module |-> FALSE]
            ELSE [r |-> [g EXCEPT !.sharedMemoryModule = TRUE], module |-> TRUE]

getSharedMemoryModule(r, loads) ==
    IF r.sharedMemoryDisabled THEN [r |-> r, module |-> FALSE]
    ELSE IF r.sharedMemoryModule THEN [r |-> r, module |-> TRUE]
    ELSE LET g == getKittyShmModule(r, loads)
         IN IF g.kittyShmModule # "module"
            THEN [r |-> [g EXCEPT !.sharedMemoryDisabled = TRUE], module |-> FALSE]
            ELSE [r |-> [g EXCEPT !.sharedMemoryModule = TRUE], module |-> TRUE]

\* Mutant: the handle just pushed is the one removed and closed.
createSharedMemoryFrame_ClosesNewest(r, made) ==
    IF made = "threw"
    THEN [r |-> [r EXCEPT !.sharedMemoryDisabled = TRUE], handle |-> 0]
    ELSE LET h == r.created + 1
             r1 == [r EXCEPT !.created = h]
             q == Append(r1.sharedMemoryQueue, h)
         IN IF byteLength(made) < RAW_FRAME_BYTES
            THEN [r |-> [r1 EXCEPT !.sharedMemoryDisabled = TRUE], handle |-> 0]
            ELSE IF Len(q) > 2
            THEN [r |-> [r1 EXCEPT !.sharedMemoryQueue = SubSeq(q, 1, Len(q) - 1),
                                   !.closed = @ \cup {q[Len(q)]}],
                  handle |-> h]
            ELSE [r |-> [r1 EXCEPT !.sharedMemoryQueue = q], handle |-> h]

\* Returns the renderer and the handle, 0 for null.
createSharedMemoryFrame(r, made) ==
    IF made = "threw"
    THEN [r |-> [r EXCEPT !.sharedMemoryDisabled = TRUE], handle |-> 0]
    ELSE LET h == r.created + 1
             r1 == [r EXCEPT !.created = h]
             q == Append(r1.sharedMemoryQueue, h)
         IN IF byteLength(made) < RAW_FRAME_BYTES
            THEN [r |-> [r1 EXCEPT !.sharedMemoryDisabled = TRUE], handle |-> 0]
            ELSE IF Len(q) > 2
            THEN [r |-> [r1 EXCEPT !.sharedMemoryQueue = Tail(q),
                                   !.closed = @ \cup {Head(q)}],
                  handle |-> h]
            ELSE [r |-> [r1 EXCEPT !.sharedMemoryQueue = q], handle |-> h]

\* render(): renderKittySharedMemory writes the frame into the handle it
\* gets, renderKittyRaw into the raw file, renderPng into a PNG.
render(r, caps, loads, made) ==
    IF caps = "kitty"
    THEN LET m == getSharedMemoryModule(r, loads)
             f == IF m.module THEN createSharedMemoryFrame(m.r, made)
                  ELSE [r |-> m.r, handle |-> 0]
         IN [f.r EXCEPT !.frame =
                [caps |-> caps,
                 transport |-> IF f.handle # 0 THEN "shm" ELSE "file",
                 handle |-> f.handle,
                 disabledBefore |-> r.sharedMemoryDisabled,
                 create |-> IF m.module THEN made ELSE "notTried",
                 queueBefore |-> r.sharedMemoryQueue]]
    ELSE [r EXCEPT !.frame =
                [caps |-> caps, transport |-> "png", handle |-> 0,
                 disabledBefore |-> r.sharedMemoryDisabled,
                 create |-> "notTried",
                 queueBefore |-> r.sharedMemoryQueue]]

\* NesImageRenderer.dispose
disposeRenderer(r) ==
    [r EXCEPT !.closed = @ \cup {r.sharedMemoryQueue[i] : i \in 1..Len(r.sharedMemoryQueue)},
              !.sharedMemoryQueue = <<>>,
              !.sharedMemoryModule = FALSE,
              !.sharedMemoryDisabled = FALSE,
              !.frame = NoFrame]

(***************************************************************************)
(* The emulation core proper, of which the extension holds only the        *)
(* binding: the PPU's frame position and NMI, and the MMC1 serial port.    *)
(***************************************************************************)
\* Scanlines 0..261; vertical blank starts at scanline 241, dot 1.
LAST_SCANLINE == 261

DOTS_PER_SCANLINE == 341

VBLANK_SCANLINE == 241

VBLANK_DOT == 1

\* nmiCount: NMIs raised in the current frame; enabledAtVblank: whether NMI
\* was enabled when this frame reached the vertical blank dot (history).
NewPpu ==
    [scanline |-> 0, dot |-> 0, nmiEnabled |-> FALSE,
     nmiCount |-> 0, enabledAtVblank |-> FALSE]

\* The write that enables or disables NMI.
setNmiEnabled(p, on) == [p EXCEPT !.nmiEnabled = on]

\* Mutant: NMI is raised at dot 1 of every vertical blank scanline.
advanceDot_EveryVblankLine(p) ==
    LET wrapsLine == p.dot = DOTS_PER_SCANLINE - 1
        wrapsFrame == wrapsLine /\ p.scanline = LAST_SCANLINE
        q == [p EXCEPT !.dot = IF wrapsLine THEN 0 ELSE @ + 1,
                       !.scanline = IF wrapsFrame THEN 0
                                    ELSE IF wrapsLine THEN @ + 1 ELSE @,
                       !.nmiCount = IF wrapsFrame THEN 0 ELSE @,
                       !.enabledAtVblank = IF wrapsFrame THEN FALSE ELSE @]
    IN IF q.scanline = VBLANK_SCANLINE /\ q.dot = VBLANK_DOT
       THEN [q EXCEPT !.enabledAtVblank = q.nmiEnabled,
                      !.nmiCount = IF q.nmiEnabled THEN @ + 1 ELSE @]
       ELSE IF q.scanline > VBLANK_SCANLINE /\ q.scanline < LAST_SCANLINE
               /\ q.dot = VBLANK_DOT /\ q.nmiEnabled
       THEN [q EXCEPT !.nmiCount = @ + 1]
       ELSE q

\* The PPU advances one dot; a new frame starts after the last dot of the
\* pre-render line.
advanceDot(p) ==
    LET wrapsLine == p.dot = DOTS_PER_SCANLINE - 1
        wrapsFrame == wrapsLine /\ p.scanline = LAST_SCANLINE
        q == [p EXCEPT !.dot = IF wrapsLine THEN 0 ELSE @ + 1,
                       !.scanline = IF wrapsFrame THEN 0
                                    ELSE IF wrapsLine THEN @ + 1 ELSE @,
                       !.nmiCount = IF wrapsFrame THEN 0 ELSE @,
                       !.enabledAtVblank = IF wrapsFrame THEN FALSE ELSE @]
    IN IF q.scanline = VBLANK_SCANLINE /\ q.dot = VBLANK_DOT
       THEN [q EXCEPT !.enabledAtVblank = q.nmiEnabled,
                      !.nmiCount = IF q.nmiEnabled THEN @ + 1 ELSE @]
       ELSE q

\* MMC1 registers: control, CHR bank 0, CHR bank 1, PRG bank.
Mmc1Registers == 0..3

\* The registers the writes of the model select, and the bytes written:
\* a 0 bit, a 1 bit, and a byte with bit 7 set (reset of the serial port).
RegisterSelects == {0, 3}

WriteBytes == {0, 1, 128}

\* lastWrite: the place of the last write in its serial sequence (0 for a
\* reset), the register it addressed and the bits of the sequence so far
\* (history).
NewMmc1 ==
    [shift |-> 0, count |-> 0,
     regs |-> [r \in Mmc1Registers |-> IF r = 0 THEN 12 ELSE 0],
     lastWrite |-> [n |-> 0, addr |-> 0, bits |-> <<>>]]

\* v | 0x0C for a 5-bit v
Or0C(v) ==
    v + (IF (v \div 4) % 2 = 0 THEN 4 ELSE 0) + (IF (v \div 8) % 2 = 0 THEN 8 ELSE 0)

Pow2(n) == IF n = 0 THEN 1 ELSE IF n = 1 THEN 2 ELSE IF n = 2 THEN 4
           ELSE IF n = 3 THEN 8 ELSE 16

\* Mutant: every serial write stores the bits so far in the register.
translateCpuWrite_CommitsEarly(m, reg, value) ==
    IF value >= 128
    THEN [m EXCEPT !.shift = 0, !.count = 0, !.regs[0] = Or0C(@),
                   !.lastWrite = [n |-> 0, addr |-> reg, bits |-> <<>>]]
    ELSE LET bit == value % 2
             sh == m.shift + bit * Pow2(m.count)
             bits == Append(IF m.count = 0 THEN <<>> ELSE m.lastWrite.bits, bit)
         IN IF m.count = 4
            THEN [m EXCEPT !.regs[reg] = sh, !.shift = 0, !.count = 0,
                           !.lastWrite = [n |-> 5, addr |-> reg, bits |-> bits]]
            ELSE [m EXCEPT !.regs[reg] = sh, !.shift = sh, !.count = @ + 1,
                           !.lastWrite = [n |-> m.count + 1, addr |-> reg,
                                          bits |-> bits]]

\* A CPU write to the MMC1 serial port: bit 7 resets the port; otherwise
\* bit 0 is shifted in, least significant bit first, and the fifth write
\* stores the five bits in the register its address selects.
translateCpuWrite(m, reg, value) ==
    IF value >= 128
    THEN [m EXCEPT !.shift = 0, !.count = 0, !.regs[0] = Or0C(@),
                   !.lastWrite = [n |-> 0, addr |-> reg, bits |-> <<>>]]
    ELSE LET bit == value % 2
             sh == m.shift + bit * Pow2(m.count)
             bits == Append(IF m.count = 0 THEN <<>> ELSE m.lastWrite.bits, bit)
         IN IF m.count = 4
            THEN [m EXCEPT !.regs[reg] = sh, !.shift = 0, !.count = 0,
                           !.lastWrite = [n |-> 5, addr |-> reg, bits |-> bits]]
            ELSE [m EXCEPT !.shift = sh, !.count = @ + 1,
                           !.lastWrite = [n |-> m.count + 1, addr |-> reg,
                                          bits |-> bits]]

(***************************************************************************)
(* The CPU of the emulation core: interrupt sampling.  NMI is an edge,     *)
(* latched until serviced; IRQ is a level the devices hold.                *)
(***************************************************************************)
NMI_VECTOR == 65530

IRQ_VECTOR == 65534

\* Cycles of the interrupt sequence.
INTERRUPT_CYCLES == 7

\* Opcode bytes, and the documented instructions among them.
Opcodes == 0..255

OfficialOpcodes ==
    {0, 1, 5, 6, 8, 9, 10, 13, 14,
     16, 17, 21, 22, 24, 25, 29, 30,
     32, 33, 36, 37, 38, 40, 41, 42, 44, 45, 46,
     48, 49, 53, 54, 56, 57, 61, 62,
     64, 65, 69, 70, 72, 73, 74, 76, 77, 78,
     80, 81, 85, 86, 88, 89, 93, 94,
     96, 97, 101, 102, 104, 105, 106, 108, 109, 110,
     112, 113, 117, 118, 120, 121, 125, 126,
     129, 132, 133, 134, 136, 138, 140, 141, 142,
     144, 145, 148, 149, 150, 152, 153, 154, 157,
     160, 161, 162, 164, 165, 166, 168, 169, 170, 172, 173, 174,
     176, 177, 180, 181, 182, 184, 185, 186, 188, 189, 190,
     192, 193, 196, 197, 198, 200, 201, 202, 204, 205, 206,
     208, 209, 213, 214, 216, 217, 221, 222,
     224, 225, 228, 229, 230, 232, 233, 234, 236, 237, 238,
     240, 241, 245, 246, 248, 249, 253, 254}

NoOpcode == 256

\* The dispatch table: a documented instruction, or an explicit no-op of two
\* cycles for every other byte.
Dispatch(opcode) ==
    IF opcode \in OfficialOpcodes THEN [operation |-> "official", noOpCycles |-> 0]
    ELSE [operation |-> "nop", noOpCycles |-> 2]

\* opcode, fault: the last opcode dispatched and whether dispatch faulted.

\* Sprite DMA: bytes of OAM, cycles of the stall that starts on an even cycle.
OAM_SIZE == 256

DMA_STALL_CYCLES == 513

\* The CPU RAM pages the model copies from, the OAM offsets it follows (the
\* first and the last byte of the copy) and the bytes it stores.
DmaPages == {0, 2}

TrackedOam == {0, OAM_SIZE - 1}

RamBytes == {0, 7}

\* The last sprite DMA (history): source page, parity of the cycle the stall
\* began on, cycles stalled, bytes copied.
NoDma == [page |-> 0, parity |-> 0, stall |-> 0, copied |-> 0]

\* ram, oam: CPU RAM (by page) and sprite memory at the tracked offsets.

\* sampled, serviced: what the last sampling point saw and did (history).
\* cycle: the parity of the CPU cycle counter.
NewCpu ==
    [nmiPending |-> FALSE, irqPending |-> FALSE, I |-> TRUE,
     pc |-> 0, cycle |-> 0,
     sampled |-> [nmi |-> FALSE, irq |-> FALSE, I |-> FALSE],
     serviced |-> "none",
     ram |-> [page \in DmaPages |-> [o \in TrackedOam |-> 0]],
     oam |-> [o \in TrackedOam |-> 0],
     dma |-> NoDma,
     opcode |-> NoOpcode,
     fault |-> FALSE]

\* The interrupt sequence: push PC and status, set I, load PC from the vector.
interrupt(c, kind) ==
    [c EXCEPT !.I = TRUE,
              !.pc = IF kind = "nmi" THEN NMI_VECTOR ELSE IRQ_VECTOR,
              !.cycle = (@ + INTERRUPT_CYCLES) % 2,
              !.nmiPending = IF kind = "nmi" THEN FALSE ELSE @,
              !.serviced = kind]

\* Mutant: the stall does not depend on the cycle it begins on.
spriteDma_FixedStall(c, page) ==
    [c EXCEPT !.oam = [o \in TrackedOam |-> c.ram[page][o]],
              !.cycle = (@ + DMA_STALL_CYCLES) % 2,
              !.dma = [page |-> page, parity |-> c.cycle,
                       stall |-> DMA_STALL_CYCLES, copied |-> OAM_SIZE]]

\* A write of `page` to the sprite-DMA register: the CPU stalls while the
\* page's OAM_SIZE bytes are copied to OAM, one cycle longer from an odd cycle.
spriteDma(c, page) ==
    LET stall == DMA_STALL_CYCLES + (IF c.cycle = 1 THEN 1 ELSE 0)
    IN [c EXCEPT !.oam = [o \in TrackedOam |-> c.ram[page][o]],
                 !.cycle = (@ + stall) % 2,
                 !.dma = [page |-> page, parity |-> c.cycle,
                          stall |-> stall, copied |-> OAM_SIZE]]

\* A store to CPU RAM that takes `cycles` cycles.
storeRam(c, page, o, value, cycles) ==
    [c EXCEPT !.ram[page][o] = value, !.cycle = (@ + cycles) % 2]

\* Mutant: a byte that is no documented instruction faults.
step_FaultsOnIllegal(c, opcode, cycles) ==
    LET d == Dispatch(opcode)
    IN IF d.operation = "official"
       THEN [c EXCEPT !.opcode = opcode, !.cycle = (@ + cycles) % 2]
       ELSE [c EXCEPT !.opcode = opcode, !.fault = TRUE]

\* step(): dispatch one opcode; cycles is what a documented instruction takes.
step(c, opcode, cycles) ==
    LET d == Dispatch(opcode)
    IN IF d.operation = "official"
       THEN [c EXCEPT !.opcode = opcode, !.cycle = (@ + cycles) % 2]
       ELSE [c EXCEPT !.opcode = opcode, !.cycle = (@ + d.noOpCycles) % 2]

\* Mutant: IRQ is looked at before NMI.
pollInterrupts_IrqFirst(c) ==
    LET s == [c EXCEPT !.sampled = [nmi |-> c.nmiPending, irq |-> c.irqPending,
                                    I |-> c.I]]
    IN IF c.irqPending /\ ~c.I THEN interrupt(s, "irq")
       ELSE IF c.nmiPending THEN interrupt(s, "nmi")
       ELSE [s EXCEPT !.serviced = "none"]

\* Mutant: the interrupt-disable flag masks NMI as well.
pollInterrupts_IGatesNmi(c) ==
    LET s == [c EXCEPT !.sampled = [nmi |-> c.nmiPending, irq |-> c.irqPending,
                                    I |-> c.I]]
    IN IF c.nmiPending /\ ~c.I THEN interrupt(s, "nmi")
       ELSE IF c.irqPending /\ ~c.I THEN interrupt(s, "irq")
       ELSE [s EXCEPT !.serviced = "none"]

\* The sampling point of an instruction.
pollInterrupts(c) ==
    LET s == [c EXCEPT !.sampled = [nmi |-> c.nmiPending, irq |-> c.irqPending,
                                    I |-> c.I]]
    IN IF c.nmiPending THEN interrupt(s, "nmi")
       ELSE IF c.irqPending /\ ~c.I THEN interrupt(s, "irq")
       ELSE [s EXCEPT !.serviced = "none"]

(***************************************************************************)
(* Functions checked on their own.  `call` holds the last call: the        *)
(* function, its input and its result.                                     *)
(***************************************************************************)
NoCall == [fn |-> "none", in |-> <<>>, out |-> <<>>]

\* NesButton
NesButtons == {"select", "start", "a", "b", "up", "down", "left", "right"}

NATIVE_BUTTON_MAP ==
    [select |-> 0, start |-> 1, a |-> 2, b |-> 3,
     up |-> 4, down |-> 5, left |-> 6, right |-> 7]

\* The binding's controller: the indices held down, and the last call made
\* on it (history).
NewNativeNes == [held |-> {}, method |-> "none", index |-> 0]

pressButton(nes, index) ==
    [held |-> nes.held \cup {index}, method |-> "pressButton", index |-> index]

releaseButton(nes, index) ==
    [held |-> nes.held \ {index}, method |-> "releaseButton", index |-> index]

\* Mutant: the indices of the other core's controller (A 0, B 1, select 2,
\* start 3).
NativeNesCore_setButton_JsnesOrder(nes, button, pressed) ==
    LET mapped == [select |-> 2, start |-> 3, a |-> 0, b |-> 1,
                   up |-> 4, down |-> 5, left |-> 6, right |-> 7][button]
    IN IF pressed THEN pressButton(nes, mapped) ELSE releaseButton(nes, mapped)

\* NativeNesCore.setButton
NativeNesCore_setButton(nes, button, pressed) ==
    LET mapped == NATIVE_BUTTON_MAP[button]
    IN IF pressed THEN pressButton(nes, mapped) ELSE releaseButton(nes, mapped)

(***************************************************************************)
(* config.ts: normalizeConfig.  A JavaScript value is a record tagged with *)
(* its kind; numbers are in tenths (pixelScale 0.5 is 5); a directory is   *)
(* the sequence of its components.                                         *)
(***************************************************************************)
Undefined == [t |-> "undefined"]

Null == [t |-> "null"]

NaN == [t |-> "nan"]

Str(s) == [t |-> "string", v |-> s]

Num(n) == [t |-> "number", v |-> n]

Bool(b) == [t |-> "boolean", v |-> b]

Arr(items) == [t |-> "array", v |-> items]

Obj(fields) == [t |-> "object", v |-> fields]

typeof(x) ==
    CASE x.t \in {"null", "array", "object"} -> "object"
      [] x.t = "nan" -> "number"
      [] OTHER -> x.t

IsStr(x, s) == x.t = "string" /\ x.v = s

\* !x
Falsy(x) ==
    \/ x.t \in {"undefined", "null", "nan"}
    \/ x.t = "string" /\ x.v = ""
    \/ x.t = "number" /\ x.v = 0
    \/ x.t = "boolean" /\ ~x.v

\* parsed.<key>, parsed being raw when raw is an object and {} otherwise
Field(raw, key) ==
    IF raw.t = "object" /\ key \in DOMAIN raw.v THEN raw.v[key] ELSE Undefined

Max(a, b) == IF a > b THEN a ELSE b

\* pixelScale limits and default, in tenths
PIXEL_SCALE_MIN == 5

PIXEL_SCALE_MAX == 40

DEFAULT_PIXEL_SCALE == 10

\* Directories as strings of the configuration file: absolute, relative,
\* under ~, or blank.
PathStrings == {"/games", "roms", "~/nes", "   "}

ParsePath(s) ==
    CASE s = "/games" -> [kind |-> "abs", parts |-> <<"games">>]
      [] s = "roms" -> [kind |-> "rel", parts |-> <<"roms">>]
      [] s = "~/nes" -> [kind |-> "home", parts |-> <<"nes">>]
      [] OTHER -> [kind |-> "blank", parts |-> <<>>]

\* os.homedir(), path.dirname(getConfigPath())
HomeDir == <<"home", "u">>

ConfigDir == HomeDir \o <<".pi", "nes">>

DEFAULT_ROM_DIR == <<"roms", "nes">>

getDefaultSaveDir(romDir) == romDir \o <<"saves">>

\* paths.ts normalizePath, then resolveConfigPath: an absolute directory
normalizePath(value, fallback) ==
    CASE value.kind = "blank" -> fallback
      [] value.kind = "home" -> [kind |-> "abs", parts |-> HomeDir \o value.parts]
      [] OTHER -> value

resolveConfigPath(value) ==
    IF value.kind = "abs" THEN value.parts ELSE ConfigDir \o value.parts

\* input-map.ts DEFAULT_INPUT_MAPPING
DEFAULT_INPUT_MAPPING ==
    [up |-> <<Str("up"), Str("w"), Str("W")>>,
     down |-> <<Str("down"), Str("s"), Str("S")>>,
     left |-> <<Str("left"), Str("a"), Str("A")>>,
     right |-> <<Str("right"), Str("d"), Str("D")>>,
     a |-> <<Str("z"), Str("Z")>>,
     b |-> <<Str("x"), Str("X")>>,
     start |-> <<Str("enter"), Str("space")>>,
     select |-> <<Str("tab")>>]

\* Keys every object has through Object.prototype, which `key in mapping`
\* also finds.
ObjectPrototypeKeys == {"toString", "constructor"}

\* Mutant: the number is returned as it is.
normalizePixelScale_NoClamp(raw) ==
    IF raw.t # "number" THEN DEFAULT_PIXEL_SCALE ELSE raw.v

normalizePixelScale(raw) ==
    IF raw.t # "number" THEN DEFAULT_PIXEL_SCALE
    ELSE Min(PIXEL_SCALE_MAX, Max(PIXEL_SCALE_MIN, raw.v))

normalizeImageQuality(raw) == IF IsStr(raw, "high") THEN "high" ELSE "balanced"

normalizeVideoFilter(raw) ==
    IF raw.t = "string" /\ raw.v \in {"ntsc-composite", "ntsc-svideo", "ntsc-rgb"}
    THEN raw.v ELSE "off"

\* Array.isArray(value) && value.every((item) => typeof item === "string")
IsStringArray(value) ==
    value.t = "array" /\ \A i \in 1..Len(value.v) : value.v[i].t = "string"

\* The entries of an array have index keys, none of which is in the mapping.
normalizeKeybindings(raw) ==
    IF Falsy(raw) \/ typeof(raw) # "object" \/ raw.t # "object"
    THEN DEFAULT_INPUT_MAPPING
    ELSE LET taken == {key \in DOMAIN raw.v :
                          /\ key \in DOMAIN DEFAULT_INPUT_MAPPING \cup ObjectPrototypeKeys
                          /\ IsStringArray(raw.v[key])}
         IN [key \in DOMAIN DEFAULT_INPUT_MAPPING \cup taken |->
                IF key \in taken THEN raw.v[key].v ELSE DEFAULT_INPUT_MAPPING[key]]

normalizeConfig(raw) ==
    LET romDirRaw == Field(raw, "romDir")
        romDirInput == IF romDirRaw.t = "string" /\ romDirRaw.v # ""
                       THEN ParsePath(romDirRaw.v)
                       ELSE [kind |-> "abs", parts |-> DEFAULT_ROM_DIR]
        romDir == resolveConfigPath(
                     normalizePath(romDirInput, [kind |-> "abs", parts |-> DEFAULT_ROM_DIR]))
        saveDirFallback == [kind |-> "abs", parts |-> getDefaultSaveDir(romDir)]
        saveDirRaw == Field(raw, "saveDir")
        saveDirInput == IF saveDirRaw.t = "string" /\ saveDirRaw.v # ""
                        THEN ParsePath(saveDirRaw.v)
                        ELSE saveDirFallback
        saveDir == resolveConfigPath(normalizePath(saveDirInput, saveDirFallback))
        enableAudio == Field(raw, "enableAudio")
    IN [romDir |-> romDir,
        saveDir |-> saveDir,
        enableAudio |-> IF enableAudio.t = "boolean" THEN enableAudio.v ELSE FALSE,
        renderer |-> IF IsStr(Field(raw, "renderer"), "text") THEN "text" ELSE "image",
        imageQuality |-> normalizeImageQuality(Field(raw, "imageQuality")),
        videoFilter |-> normalizeVideoFilter(Field(raw, "videoFilter")),
        pixelScale |-> normalizePixelScale(Field(raw, "pixelScale")),
        keybindings |-> normalizeKeybindings(Field(raw, "keybindings"))]

\* The values given to normalizeConfig: what JSON.parse can return, and NaN.
RawKeybindings ==
    {Undefined, Null, Str("wasd"), Arr(<<Str("k")>>),
     Obj([a |-> Arr(<<Str("k"), Str("l")>>)]),
     Obj([a |-> Str("not-an-array")]),
     Obj([a |-> Arr(<<Str("k"), Num(50)>>), up |-> Arr(<<>>)]),
     Obj([toString |-> Arr(<<Str("k")>>), turbo |-> Arr(<<Str("t")>>)])}

RawConfigs ==
    {Null, Str("invalid"), Num(30), Arr(<<Str("text")>>)}
    \cup
    {Obj([romDir |-> romDir, saveDir |-> saveDir, enableAudio |-> enableAudio,
          renderer |-> renderer, imageQuality |-> imageQuality,
          videoFilter |-> videoFilter, pixelScale |-> pixelScale,
          keybindings |-> keybindings]) :
        romDir \in {Undefined, Str("roms"), Str("   ")},
        saveDir \in {Undefined, Str("~/nes"), Num(10)},
        enableAudio \in {Undefined, Bool(TRUE), Str("yes")},
        renderer \in {Undefined, Str("text"), Str("invalid"), Num(10)},
        imageQuality \in {Undefined, Str("high"), Str("ultra")},
        videoFilter \in {Undefined, Str("ntsc-svideo"), Str("crt"), Null},
        pixelScale \in {Undefined, NaN, Num(1), Num(20), Num(100), Str("2")},
        keybindings \in RawKeybindings}

(***************************************************************************)
(* NesOverlayComponent (nes-component.ts).  `pressed` is the set of        *)
(* buttons whose last core.setButton call from the component was a press;  *)
(* `tapTimers` the buttons with a pending 80 ms release timer.             *)
(*   state  "none" no component yet | "attached" it receives input         *)
(*          | "closed" onDetach or onQuit was called | "disposed"          *)
(***************************************************************************)
TapButtons == {"start", "select"}

NoOverlay ==
    [state |-> "none", rendererMode |-> "image", tapTimers |-> {},
     pressed |-> {}, imageCleared |-> FALSE, closedBy |-> "none"]

NewNesOverlayComponent(rendererMode) ==
    [NoOverlay EXCEPT !.state = "attached", !.rendererMode = rendererMode]

\* core.setButton(button, pressed) as the component's record of it
componentSetButton(o, button, pressed) ==
    [o EXCEPT !.pressed = IF pressed THEN @ \cup {button} ELSE @ \ {button}]

\* tapButton: press now, (re)arm the release timer
tapButton(o, button) ==
    [componentSetButton(o, button, TRUE) EXCEPT !.tapTimers = @ \cup {button}]

\* The callback of the release timer.
tapTimerFires(o, button) ==
    [componentSetButton(o, button, FALSE) EXCEPT !.tapTimers = @ \ {button}]

\* handleInput for a key mapped to one button
handleInputButton(o, button, released) ==
    IF button \in TapButtons
    THEN IF ~released THEN tapButton(o, button) ELSE o
    ELSE componentSetButton(o, button, ~released)

\* cleanupImage: the component and its image renderer
cleanupImage(o, r) ==
    IF o.rendererMode # "image" \/ o.imageCleared THEN [o |-> o, r |-> r]
    ELSE [o |-> [o EXCEPT !.imageCleared = TRUE], r |-> disposeRenderer(r)]

\* handleInput for ctrl+q (detach) and q (quit)
handleInputClose(o, r, key) ==
    LET c == cleanupImage(o, r)
    IN [o |-> [c.o EXCEPT !.state = "closed", !.closedBy = key], r |-> c.r]

\* NesOverlayComponent.dispose
componentDispose(o, r) ==
    LET c == cleanupImage(o, r)
    IN [o |-> [c.o EXCEPT !.state = "disposed", !.tapTimers = {}], r |-> c.r]

\* NesOverlayComponent.render: in image mode the frame goes to the renderer
componentRender(o, r, caps, loads, made) ==
    IF o.rendererMode = "image" THEN render(r, caps, loads, made) ELSE r

(***************************************************************************)
(* Host calls on the core API (as tests/core-smoke.test.ts drives it)      *)
(***************************************************************************)
HostBuffers == BuffersOf({0, 1, SRAM_SIZE, SRAM_SIZE + 1}, {0, 1})

Op(name, k, hit, src) == [op |-> name, core |-> k, hit |-> hit, src |-> src]

InitCore ==
    /\ cores = [k \in CoreIds |-> NewJsnesCore]
    /\ romOf = [k \in CoreIds |-> NoRom]
    /\ heldSram = 0
    /\ lastOp = Op("new", 0, FALSE, 0)
    /\ SessionIdle
    /\ image = NewNesImageRenderer
    /\ ppu = NewPpu
    /\ mmc1 = NewMmc1
    /\ cpu = NewCpu
    /\ call = NoCall
    /\ overlay = NoOverlay
    /\ files = [f \in SavePaths |-> NullBuf]

HostLoadRom(k, rom) ==
    /\ UNCHANGED <<sessionVars, otherVars>>
    /\ cores' = [cores EXCEPT ![k] = loadRom(@, rom)]
    /\ romOf' = IF RomLoads(rom) THEN [romOf EXCEPT ![k] = rom] ELSE romOf
    /\ lastOp' = Op(IF RomLoads(rom) THEN "loadRom" ELSE "loadRomThrew", k, FALSE, 0)
    /\ heldSram' = IF heldSram = k THEN 0 ELSE heldSram

HostTick(k, writes) ==
    /\ UNCHANGED <<sessionVars, otherVars>>
    /\ cores' = [cores EXCEPT ![k] = tick(@, writes)]
    /\ lastOp' = Op("tick", k, HitsWindow(writes), 0)
    /\ UNCHANGED <<romOf, heldSram>>

HostSetButton(k) ==
    /\ UNCHANGED <<sessionVars, otherVars>>
    /\ cores' = [cores EXCEPT ![k] = setButton(@)]
    /\ lastOp' = Op("setButton", k, FALSE, 0)
    /\ UNCHANGED <<romOf, heldSram>>

\* getSram() returns the live buffer (no copy): the host holds a reference.
HostGetSram(k) ==
    /\ UNCHANGED <<sessionVars, otherVars>>
    /\ heldSram' = IF getSram(cores[k]).isNull THEN 0 ELSE k
    /\ lastOp' = Op("getSram", k, FALSE, 0)
    /\ UNCHANGED <<cores, romOf>>

\* setSram with bytes read from a save file.
HostSetSramData(k, data) ==
    /\ UNCHANGED <<sessionVars, otherVars>>
    /\ cores' = [cores EXCEPT ![k] = setSram(@, data)]
    /\ lastOp' = Op("setSram", k, FALSE, 0)
    /\ UNCHANGED <<romOf, heldSram>>

\* setSram with the buffer another core returned from getSram().
HostSetSramHeld(k) ==
    /\ UNCHANGED <<sessionVars, otherVars>>
    /\ heldSram # 0
    /\ heldSram # k
    /\ cores' = [cores EXCEPT ![k] = setSram(@, getSram(cores[heldSram]))]
    /\ lastOp' = Op("setSram", k, FALSE, heldSram)
    /\ UNCHANGED <<romOf, heldSram>>

HostMarkSramSaved(k) ==
    /\ UNCHANGED <<sessionVars, otherVars>>
    /\ cores' = [cores EXCEPT ![k] = markSramSaved(@)]
    /\ lastOp' = Op("markSramSaved", k, FALSE, 0)
    /\ UNCHANGED <<romOf, heldSram>>

HostReset(k) ==
    /\ UNCHANGED <<sessionVars, otherVars>>
    /\ cores' = [cores EXCEPT ![k] = reset(@)]
    /\ lastOp' = Op("reset", k, FALSE, 0)
    /\ UNCHANGED <<romOf, heldSram>>

NextCore ==
    \/ \E k \in HostCores, rom \in Roms : HostLoadRom(k, rom)
    \/ \E k \in HostCores, writes \in WriteSeqs : HostTick(k, writes)
    \/ \E k \in HostCores : HostSetButton(k)
    \/ \E k \in HostCores : HostGetSram(k)
    \/ \E k \in HostCores, data \in HostBuffers : HostSetSramData(k, data)
    \/ \E k \in HostCores : HostSetSramHeld(k)
    \/ \E k \in HostCores : HostMarkSramSaved(k)
    \/ \E k \in HostCores : HostReset(k)

SpecCore == InitCore /\ [][NextCore]_vars

(***************************************************************************)
(* Timers, saves and handlers.  One action is one event-loop task: a timer *)
(* callback, an I/O completion, a UI event or a command, run together with *)
(* every promise continuation it makes ready, up to the next await of real *)
(* I/O.  /nes commands are dispatched one at a time.                       *)
(***************************************************************************)
Renderers == {"image", "text"}

\* What the frames of one on-time tick write in the session scenarios.
SessionWrites == {<<>>, <<<<SRAM_BASE, 258>>>>}

RenderIntervalFor(renderer) ==
    IF renderer = "image" THEN IMAGE_RENDER_INTERVAL_MS ELSE TEXT_RENDER_INTERVAL_MS

\* attachSession up to `await ctx.ui.custom(...)`.
attachSession(s, renderer) ==
    setRenderHook(setRenderIntervalMs(s, RenderIntervalFor(renderer)), TRUE)

Calls == <<hist.nCreate, hist.nLoadRom, hist.nSetSram>>

Ended(c, res) == [c EXCEPT !.pc = "idle", !.result = res]

Init ==
    /\ cores = [k \in CoreIds |-> NewJsnesCore]
    /\ romOf = [k \in CoreIds |-> NoRom]
    /\ heldSram = 0
    /\ lastOp = Op("new", 0, FALSE, 0)
    /\ SessionIdle
    /\ image = NewNesImageRenderer
    /\ ppu = NewPpu
    /\ mmc1 = NewMmc1
    /\ cpu = NewCpu
    /\ call = NoCall
    /\ overlay = NoOverlay
    /\ files \in [SavePaths -> {NullBuf} \cup BuffersOf({SRAM_SIZE}, {1})]
    /\ \A p \in Roms : ~RomHasBatteryRam(p) => files[getSavePath(SaveDir, p)] = NullBuf

\* setInterval(() => this.tick(), frameIntervalMs)
\* delta: time since the previous tick; writes: the battery RAM writes of the
\* frames run; throws: a core.tick() call throws, either the first or the
\* last one of the loop.
TickTimerFire(k, delta, writes, throws) ==
    /\ sessions[k].tickTimer
    /\   LET s == sessions[k]
             t == tickFrames(s, delta)
             ran == IF t.frames > 0 THEN tick(cores[k], writes) ELSE cores[k]
             rendered == ~throws /\ t.frames > 0 /\ rendersNow(s, delta)
         IN /\ t.frames = 0 => (writes = <<>> /\ ~throws)
            /\ IF s.stopping
               THEN UNCHANGED <<sessions, cores>>
               ELSE \E calls \in (IF throws THEN {1, t.frames} ELSE {t.frames}) :
                      LET s1 == [s EXCEPT
                                   !.accumulatedTime = t.accumulatedTime,
                                   !.sinceRender = IF rendered THEN 0
                                                   ELSE Min(@ + delta, IMAGE_RENDER_INTERVAL_MS),
                                   !.lastTick =
                                      [acc |-> s.accumulatedTime + delta,
                                       frames |-> calls,
                                       threw |-> throws,
                                       rendered |-> rendered,
                                       gap |-> IF rendered
                                               THEN Min(s.sinceRender + delta,
                                                        IMAGE_RENDER_INTERVAL_MS)
                                               ELSE 0,
                                       interval |-> IF rendered THEN s.renderIntervalMs
                                                    ELSE 0]]
                          r == IF throws THEN stop(s1, ran, "void")
                               ELSE [sess |-> s1, core |-> ran, result |-> "none"]
                      IN /\ sessions' = [sessions EXCEPT ![k] = r.sess]
                         /\ cores' = [cores EXCEPT ![k] = r.core]
    /\ UNCHANGED <<otherVars, romOf, heldSram, lastOp, activeSession, cmd, shut, files, hist>>

\* setInterval(() => void this.saveIfNeeded(false), saveIntervalMs)
SaveTimerFire(k) ==
    /\ sessions[k].saveTimer
    /\ sessions' = [sessions EXCEPT ![k] = saveIfNeeded(@, cores[k], FALSE).sess]
    /\ UNCHANGED <<otherVars, coreVars, activeSession, cmd, shut, files, hist>>

\* fs.writeFile writes the buffer it was given: the core's live SRAM.
SaveWrite(k) ==
    /\ sessions[k].save = "pending"
    /\ files' = saveSram(files, sessions[k].romPath, cores[k].sram)
    /\ sessions' = [sessions EXCEPT ![k].save = "written"]
    /\ UNCHANGED <<otherVars, coreVars, activeSession, cmd, shut, hist>>

\* The continuation of whoever awaits the stop() of session k, once that
\* stop() has settled (ok: resolved, ~ok: rejected).
StopSettled(k, ok) ==
    LET caller == sessions[k].stopCaller
    IN /\ IF caller = "cmd"
          THEN IF ~ok THEN /\ cmd' = Ended(cmd, "threw")
                           /\ UNCHANGED activeSession
               ELSE /\ activeSession' = NoSession
                    /\ cmd' = IF cmd.pc = "stopOld"
                              THEN [cmd EXCEPT !.pc = "readRom"]
                              ELSE Ended(cmd, "quit")
          ELSE IF caller = "shutdown" /\ ok
               THEN activeSession' = NoSession /\ UNCHANGED cmd
               ELSE UNCHANGED <<activeSession, cmd>>
       /\ shut' = IF caller = "shutdown" THEN "done" ELSE shut
       /\ hist' = IF ~ok /\ caller \in {"void", "shutdown"}
                  THEN [hist EXCEPT !.unhandled = TRUE] ELSE hist

\* saveSram resolved: saveIfNeeded resumes, then a stop() awaiting it.
SaveComplete(k) ==
    /\ sessions[k].save = "written"
    /\ LET forced == sessions[k].saveForced
           c1 == markSramSaved(cores[k])
       IN /\ sessions' = [sessions EXCEPT ![k].saveInFlight = FALSE,
                                          ![k].save = "idle",
                                          ![k].saveForced = FALSE,
                                          ![k].stopCaller = "none"]
          /\ cores' = [cores EXCEPT ![k] = IF forced THEN dispose(c1) ELSE c1]
          /\ IF forced THEN StopSettled(k, TRUE)
             ELSE UNCHANGED <<activeSession, cmd, shut, hist>>
    /\ UNCHANGED <<otherVars, romOf, heldSram, lastOp, files>>

\* saveSram rejected (mkdir or writeFile failed): the finally block runs and
\* the error propagates out of saveIfNeeded, and out of a stop() awaiting it.
SaveFail(k) ==
    /\ sessions[k].save = "pending"
    /\ sessions' = [sessions EXCEPT ![k].saveInFlight = FALSE,
                                    ![k].save = "idle",
                                    ![k].saveForced = FALSE,
                                    ![k].stopCaller = "none"]
    /\ IF sessions[k].saveForced THEN StopSettled(k, FALSE)
       ELSE /\ hist' = [hist EXCEPT !.unhandled = TRUE]
            /\ UNCHANGED <<activeSession, cmd, shut>>
    /\ UNCHANGED <<otherVars, coreVars, files>>

\* pi.on("session_shutdown", ...)
Shutdown ==
    /\ shut = "idle"
    /\ IF activeSession = NoSession
       THEN /\ shut' = "done"
            /\ UNCHANGED <<sessions, cores, activeSession>>
       ELSE LET k == activeSession
                r == stop(sessions[k], cores[k], "shutdown")
            IN /\ sessions' = [sessions EXCEPT ![k] = r.sess]
               /\ cores' = [cores EXCEPT ![k] = r.core]
               /\ IF r.result = "pending"
                  THEN shut' = "awaitStop" /\ UNCHANGED activeSession
                  ELSE shut' = "done" /\ activeSession' = NoSession
    /\ hist' = [hist EXCEPT !.shutSess = activeSession]
    /\ UNCHANGED <<otherVars, romOf, heldSram, lastOp, cmd, files>>

\* The /nes handler is invoked; it awaits configExists() and loadConfig().
CmdStart(romArg) ==
    /\ cmd.pc = "idle"
    /\ shut = "idle"
    /\ hist.nCmd < MaxCommands
    /\ cmd' = [pc |-> "config", arg |-> romArg, romPath |-> romArg, renderer |-> "image",
               sess |-> NoSession, core |-> 0, path |-> "none", result |-> "none",
               quit |-> FALSE, active1 |-> NoSession, calls0 |-> Calls]
    /\ hist' = [hist EXCEPT !.nCmd = @ + 1]
    /\ UNCHANGED <<otherVars, coreVars, sessions, activeSession, shut, files>>

\* The handler from the resolved ROM path to its next await: stop the
\* session of another ROM, then create a session or reuse the active one.
AfterRomPath(c, p) ==
    IF activeSession # NoSession /\ sessions[activeSession].romPath # p
    THEN LET k == activeSession
             r == stop(sessions[k], cores[k], "cmd")
         IN /\ sessions' = [sessions EXCEPT ![k] = r.sess]
            /\ cores' = [cores EXCEPT ![k] = r.core]
            /\ IF r.result = "pending"
               THEN /\ cmd' = [c EXCEPT !.pc = "stopOld", !.romPath = p, !.path = "create"]
                    /\ UNCHANGED activeSession
               ELSE /\ cmd' = [c EXCEPT !.pc = "readRom", !.romPath = p, !.path = "create"]
                    /\ activeSession' = NoSession
    ELSE IF activeSession = NoSession
    THEN /\ cmd' = [c EXCEPT !.pc = "readRom", !.romPath = p, !.path = "create"]
         /\ UNCHANGED <<sessions, cores, activeSession>>
    ELSE /\ sessions' = [sessions EXCEPT ![activeSession] = attachSession(@, c.renderer)]
         /\ cmd' = [c EXCEPT !.pc = "attached", !.romPath = p, !.path = "reuse",
                             !.sess = activeSession]
         /\ UNCHANGED <<cores, activeSession>>

\* Mutant: the reattach branch is never taken.
reattaches_Never(romArg, active) == FALSE

\* `if (!romArg && activeSession)`: /nes without a ROM reattaches.
reattaches(romArg, active) == romArg = NoRom /\ active # NoSession

\* Config loaded: reattach, open the ROM picker, or go on with the argument.
CmdAfterConfig(renderer) ==
    /\ cmd.pc = "config"
    /\ LET c == [cmd EXCEPT !.renderer = renderer, !.active1 = activeSession]
       IN IF reattaches(cmd.arg, activeSession)
          THEN /\ sessions' = [sessions EXCEPT ![activeSession] = attachSession(@, renderer)]
               /\ cmd' = [c EXCEPT !.pc = "attached", !.path = "reattach",
                                   !.sess = activeSession]
               /\ UNCHANGED <<cores, activeSession>>
          ELSE IF cmd.arg = NoRom
          THEN /\ cmd' = [c EXCEPT !.pc = "select"]
               /\ UNCHANGED <<sessions, cores, activeSession>>
          ELSE AfterRomPath(c, cmd.romPath)
    /\ UNCHANGED <<otherVars, romOf, heldSram, lastOp, shut, files, hist>>

\* The ROM picker returns a ROM, or nothing (cancelled, empty or unreadable
\* directory).
CmdSelect(choice) ==
    /\ cmd.pc = "select"
    /\ IF choice = NoRom
       THEN /\ cmd' = Ended(cmd, "cancelled")
            /\ UNCHANGED <<sessions, cores, activeSession>>
       ELSE AfterRomPath(cmd, choice)
    /\ UNCHANGED <<otherVars, romOf, heldSram, lastOp, shut, files, hist>>

\* Mutant: a loadRom failure is not caught and the session is created anyway.
CmdAfterRead_IgnoresLoadFailure(readOk, coreOk) ==
    /\ cmd.pc = "readRom"
    /\ hist.nCreate < MaxCores
    /\ IF ~readOk
       THEN /\ cmd' = Ended(cmd, "readFailed")
            /\ UNCHANGED <<cores, romOf, hist>>
       ELSE IF ~coreOk
       THEN /\ cmd' = Ended(cmd, "coreFailed")
            /\ UNCHANGED <<cores, romOf, hist>>
       ELSE LET k == hist.nCreate + 1
                loaded == RomLoads(cmd.romPath)
                c1 == loadRom(NewJsnesCore, cmd.romPath)
            IN /\ cores' = [cores EXCEPT ![k] = c1]
               /\ romOf' = IF loaded THEN [romOf EXCEPT ![k] = cmd.romPath] ELSE romOf
               /\ hist' = [hist EXCEPT !.nCreate = @ + 1, !.nLoadRom = @ + 1]
               /\ cmd' = [cmd EXCEPT !.pc = "loadSram", !.core = k]
    /\ UNCHANGED <<otherVars, heldSram, lastOp, sessions, activeSession, shut, files>>

\* createSession after fs.readFile(romPath): create the core, load the ROM,
\* then await loadSram.
CmdAfterRead(readOk, coreOk) ==
    /\ cmd.pc = "readRom"
    /\ hist.nCreate < MaxCores
    /\ IF ~readOk
       THEN /\ cmd' = Ended(cmd, "readFailed")
            /\ UNCHANGED <<cores, romOf, hist>>
       ELSE IF ~coreOk
       THEN /\ cmd' = Ended(cmd, "coreFailed")
            /\ UNCHANGED <<cores, romOf, hist>>
       ELSE LET k == hist.nCreate + 1
                loaded == RomLoads(cmd.romPath)
                c1 == loadRom(NewJsnesCore, cmd.romPath)
            IN /\ cores' = [cores EXCEPT ![k] = IF loaded THEN c1 ELSE dispose(c1)]
               /\ romOf' = IF loaded THEN [romOf EXCEPT ![k] = cmd.romPath] ELSE romOf
               /\ hist' = [hist EXCEPT !.nCreate = @ + 1, !.nLoadRom = @ + 1]
               /\ cmd' = IF loaded THEN [cmd EXCEPT !.pc = "loadSram", !.core = k]
                         ELSE Ended(cmd, "loadFailed")
    /\ UNCHANGED <<otherVars, heldSram, lastOp, sessions, activeSession, shut, files>>

\* createSession after loadSram: restore the save, start the session; the
\* handler then sets activeSession and attaches the overlay.
CmdAfterLoadSram(readable) ==
    /\ cmd.pc = "loadSram"
    /\ LET k == cmd.core
           savedSram == loadSram(files, cmd.romPath, readable)
           c1 == IF savedSram.isNull THEN cores[k] ELSE setSram(cores[k], savedSram)
           s1 == [start(NesSession(cmd.romPath)) EXCEPT
                     !.fileAtCreate = IF readable
                                      THEN files[getSavePath(SaveDir, cmd.romPath)]
                                      ELSE NullBuf,
                     !.sramAtStart = getSram(c1),
                     !.tickedAtStart = c1.ticked]
       IN /\ cores' = [cores EXCEPT ![k] = c1]
          /\ sessions' = [sessions EXCEPT ![k] = attachSession(s1, cmd.renderer)]
          /\ activeSession' = k
          /\ hist' = IF savedSram.isNull THEN hist ELSE [hist EXCEPT !.nSetSram = @ + 1]
          /\ cmd' = [cmd EXCEPT !.pc = "attached", !.sess = k]
    /\ UNCHANGED <<otherVars, romOf, heldSram, lastOp, shut, files>>

\* Mutant: detaching also stops the session.
CmdDetach_Stops ==
    /\ cmd.pc = "attached"
    /\ LET k == cmd.sess
           r == stop(setRenderHook(sessions[k], FALSE), cores[k], "void")
       IN /\ sessions' = [sessions EXCEPT ![k] = r.sess]
          /\ cores' = [cores EXCEPT ![k] = r.core]
    /\ cmd' = Ended(cmd, "detached")
    /\ UNCHANGED <<otherVars, romOf, heldSram, lastOp, activeSession, shut, files, hist>>

\* Ctrl+Q in the overlay: onDetach, ui.custom resolves, the hook is cleared.
CmdDetach ==
    /\ cmd.pc = "attached"
    /\ sessions' = [sessions EXCEPT ![cmd.sess] = setRenderHook(@, FALSE)]
    /\ cmd' = Ended(cmd, "detached")
    /\ UNCHANGED <<otherVars, coreVars, activeSession, shut, files, hist>>

\* Q in the overlay: onQuit, ui.custom resolves, the hook is cleared and the
\* handler awaits activeSession.stop().
CmdQuit ==
    /\ cmd.pc = "attached"
    /\ LET ss == [sessions EXCEPT ![cmd.sess] = setRenderHook(@, FALSE)]
           q == [cmd EXCEPT !.quit = TRUE]
       IN IF activeSession = NoSession
          THEN /\ sessions' = ss
               /\ cmd' = Ended(q, "threw")
               /\ UNCHANGED <<cores, activeSession>>
          ELSE LET k == activeSession
                   r == stop(ss[k], cores[k], "cmd")
               IN /\ sessions' = [ss EXCEPT ![k] = r.sess]
                  /\ cores' = [cores EXCEPT ![k] = r.core]
                  /\ IF r.result = "pending"
                     THEN /\ cmd' = [q EXCEPT !.pc = "stopQuit"]
                          /\ UNCHANGED activeSession
                     ELSE /\ cmd' = Ended(q, "quit")
                          /\ activeSession' = NoSession
    /\ UNCHANGED <<otherVars, romOf, heldSram, lastOp, shut, files, hist>>

Next ==
    \/ \E k \in CoreIds, writes \in SessionWrites, throws \in BOOLEAN :
          TickTimerFire(k, DEFAULT_FRAME_INTERVAL_MS, writes, throws)
    \/ \E k \in CoreIds : SaveTimerFire(k)
    \/ \E k \in CoreIds : SaveWrite(k)
    \/ \E k \in CoreIds : SaveComplete(k)
    \/ \E k \in CoreIds : SaveFail(k)
    \/ Shutdown
    \/ \E romArg \in Roms \cup {NoRom} : CmdStart(romArg)
    \/ \E renderer \in Renderers : CmdAfterConfig(renderer)
    \/ \E choice \in Roms \cup {NoRom} : CmdSelect(choice)
    \/ \E readOk \in BOOLEAN, coreOk \in BOOLEAN : CmdAfterRead(readOk, coreOk)
    \/ \E readable \in BOOLEAN : CmdAfterLoadSram(readable)
    \/ CmdDetach
    \/ CmdQuit

Spec == Init /\ [][Next]_vars

\* The same system when the file system never fails, with the scheduling
\* the event loop guarantees: an interval timer that stays set fires again,
\* and a file operation that was started finishes and resumes its await.
LiveNext ==
    \/ \E k \in CoreIds, writes \in SessionWrites, throws \in BOOLEAN :
          TickTimerFire(k, DEFAULT_FRAME_INTERVAL_MS, writes, throws)
    \/ \E k \in CoreIds : SaveTimerFire(k)
    \/ \E k \in CoreIds : SaveWrite(k)
    \/ \E k \in CoreIds : SaveComplete(k)
    \/ Shutdown
    \/ \E romArg \in Roms \cup {NoRom} : CmdStart(romArg)
    \/ \E renderer \in Renderers : CmdAfterConfig(renderer)
    \/ \E choice \in Roms \cup {NoRom} : CmdSelect(choice)
    \/ \E readOk \in BOOLEAN, coreOk \in BOOLEAN : CmdAfterRead(readOk, coreOk)
    \/ \E readable \in BOOLEAN : CmdAfterLoadSram(readable)
    \/ CmdDetach
    \/ CmdQuit

LiveSpec ==
    /\ Init
    /\ [][LiveNext]_vars
    /\ \A k \in CoreIds : WF_vars(SaveTimerFire(k))
    /\ \A k \in CoreIds : WF_vars(SaveWrite(k))
    /\ \A k \in CoreIds : WF_vars(SaveComplete(k))

(***************************************************************************)
(* One or two sessions driven by timer ticks that come late, on time or    *)
(* early, attached and detached; no saves, no quit.                        *)
(***************************************************************************)
NextTick ==
    \/ \E k \in CoreIds, delta \in Deltas, writes \in {<<>>}, throws \in BOOLEAN :
          TickTimerFire(k, delta, writes, throws)
    \/ \E romArg \in Roms \cup {NoRom} : CmdStart(romArg)
    \/ \E renderer \in Renderers : CmdAfterConfig(renderer)
    \/ \E choice \in Roms \cup {NoRom} : CmdSelect(choice)
    \/ \E readOk \in BOOLEAN, coreOk \in BOOLEAN : CmdAfterRead(readOk, coreOk)
    \/ \E readable \in BOOLEAN : CmdAfterLoadSram(readable)
    \/ CmdDetach

SpecTick == Init /\ [][NextTick]_vars

(***************************************************************************)
(* The renderer alone: frames rendered on any terminal, dispose().         *)
(***************************************************************************)
Render(caps, loads, made) ==
    /\ image.created < MaxHandles
    /\ image' = render(image, caps, loads, made)
    /\ UNCHANGED <<coreVars, sessionVars, ppu, mmc1, cpu, call, overlay>>

DisposeRenderer ==
    /\ image' = disposeRenderer(image)
    /\ UNCHANGED <<coreVars, sessionVars, ppu, mmc1, cpu, call, overlay>>

NextImage ==
    \/ \E caps \in Caps, loads \in BOOLEAN, made \in CreateOutcomes :
          Render(caps, loads, made)
    \/ DisposeRenderer

SpecImage == Init /\ [][NextImage]_vars

(***************************************************************************)
(* The PPU alone: dots advance, NMI is enabled and disabled at any time.   *)
(***************************************************************************)
PpuAdvance ==
    /\ ppu' = advanceDot(ppu)
    /\ UNCHANGED <<coreVars, sessionVars, image, mmc1, cpu, call, overlay>>

PpuSetNmi(on) ==
    /\ ppu' = setNmiEnabled(ppu, on)
    /\ UNCHANGED <<coreVars, sessionVars, image, mmc1, cpu, call, overlay>>

NextPpu ==
    \/ PpuAdvance
    \/ \E on \in BOOLEAN : PpuSetNmi(on)

SpecPpu == InitCore /\ [][NextPpu]_vars

(***************************************************************************)
(* The MMC1 serial port alone: any sequence of writes.                     *)
(***************************************************************************)
Mmc1Write(reg, value) ==
    /\ mmc1' = translateCpuWrite(mmc1, reg, value)
    /\ UNCHANGED <<coreVars, sessionVars, image, ppu, cpu, call, overlay>>

NextMmc1 == \E reg \in RegisterSelects, value \in WriteBytes : Mmc1Write(reg, value)

SpecMmc1 == InitCore /\ [][NextMmc1]_vars

(***************************************************************************)
(* The CPU's interrupt lines: the PPU raises NMI, devices raise and drop   *)
(* IRQ, the program sets and clears I, the CPU samples.                    *)
(***************************************************************************)
CpuRaiseNmi ==
    /\ cpu' = [cpu EXCEPT !.nmiPending = TRUE]
    /\ UNCHANGED <<coreVars, sessionVars, image, ppu, mmc1, call, overlay>>

CpuSetIrq(level) ==
    /\ cpu' = [cpu EXCEPT !.irqPending = level]
    /\ UNCHANGED <<coreVars, sessionVars, image, ppu, mmc1, call, overlay>>

CpuSetI(flag) ==
    /\ cpu' = [cpu EXCEPT !.I = flag, !.cycle = 1 - @]
    /\ UNCHANGED <<coreVars, sessionVars, image, ppu, mmc1, call, overlay>>

CpuPoll ==
    /\ cpu' = pollInterrupts(cpu)
    /\ UNCHANGED <<coreVars, sessionVars, image, ppu, mmc1, call, overlay>>

NextCpuInt ==
    \/ CpuRaiseNmi
    \/ \E level \in BOOLEAN : CpuSetIrq(level)
    \/ \E flag \in BOOLEAN : CpuSetI(flag)
    \/ CpuPoll

SpecCpuInt == InitCore /\ [][NextCpuInt]_vars

(***************************************************************************)
(* Sprite DMA: the program stores to RAM and writes the DMA register.      *)
(***************************************************************************)
CpuStoreRam(page, o, value, cycles) ==
    /\ cpu' = storeRam(cpu, page, o, value, cycles)
    /\ UNCHANGED <<coreVars, sessionVars, image, ppu, mmc1, call, overlay>>

CpuSpriteDma(page) ==
    /\ cpu' = spriteDma(cpu, page)
    /\ UNCHANGED <<coreVars, sessionVars, image, ppu, mmc1, call, overlay>>

NextDma ==
    \/ \E page \in DmaPages, o \in TrackedOam, value \in RamBytes, cycles \in {3, 4} :
          CpuStoreRam(page, o, value, cycles)
    \/ \E page \in DmaPages : CpuSpriteDma(page)

SpecDma == InitCore /\ [][NextDma]_vars

(***************************************************************************)
(* Opcode dispatch: the CPU fetches any byte as an opcode.                 *)
(***************************************************************************)
CpuStep(opcode, cycles) ==
    /\ ~cpu.fault
    /\ cpu' = step(cpu, opcode, cycles)
    /\ UNCHANGED <<coreVars, sessionVars, image, ppu, mmc1, call, overlay>>

NextDispatch == \E opcode \in Opcodes, cycles \in 2..7 : CpuStep(opcode, cycles)

SpecDispatch == InitCore /\ [][NextDispatch]_vars

(***************************************************************************)
(* The native core wrapper's buttons: the host presses and releases.       *)
(***************************************************************************)
\* in: the button, pressed, and the buttons the host holds down after the call.
SetButton(button, pressed) ==
    /\ LET first == call.fn # "setButton"
           nes == IF first THEN NewNativeNes ELSE call.out
           before == IF first THEN {} ELSE call.in[3]
       IN call' = [fn |-> "setButton",
                   in |-> <<button, pressed,
                            IF pressed THEN before \cup {button}
                            ELSE before \ {button}>>,
                   out |-> NativeNesCore_setButton(nes, button, pressed)]
    /\ UNCHANGED <<coreVars, sessionVars, image, ppu, mmc1, cpu, overlay>>

NextButtons == \E button \in NesButtons, pressed \in BOOLEAN : SetButton(button, pressed)

SpecButtons == InitCore /\ [][NextButtons]_vars

(***************************************************************************)
(* getSavePath alone: two calls, compared.                                 *)
(***************************************************************************)
GetSavePaths(dir1, rom1, dir2, rom2) ==
    /\ call' = [fn |-> "getSavePath",
                in |-> <<dir1, rom1, dir2, rom2>>,
                out |-> <<getSavePath(dir1, rom1), getSavePath(dir2, rom2)>>]
    /\ UNCHANGED <<coreVars, sessionVars, image, ppu, mmc1, cpu, overlay>>

NextSavePath ==
    \E dir1 \in SaveDirs, rom1 \in RomPaths, dir2 \in SaveDirs, rom2 \in RomPaths :
        GetSavePaths(dir1, rom1, dir2, rom2)

SpecSavePath == InitCore /\ [][NextSavePath]_vars

(***************************************************************************)
(* Sessions whose game writes two different values to battery RAM, when    *)
(* the file system never fails and core.tick never throws.                 *)
(***************************************************************************)
GameWrites == {<<>>, <<<<SRAM_BASE, 258>>>>, <<<<SRAM_BASE, 3>>>>}

NextSave ==
    \/ \E k \in CoreIds, writes \in GameWrites :
          TickTimerFire(k, DEFAULT_FRAME_INTERVAL_MS, writes, FALSE)
    \/ \E k \in CoreIds : SaveTimerFire(k)
    \/ \E k \in CoreIds : SaveWrite(k)
    \/ \E k \in CoreIds : SaveComplete(k)
    \/ Shutdown
    \/ \E romArg \in Roms \cup {NoRom} : CmdStart(romArg)
    \/ \E renderer \in Renderers : CmdAfterConfig(renderer)
    \/ \E choice \in Roms \cup {NoRom} : CmdSelect(choice)
    \/ \E readOk \in BOOLEAN, coreOk \in BOOLEAN : CmdAfterRead(readOk, coreOk)
    \/ \E readable \in BOOLEAN : CmdAfterLoadSram(readable)
    \/ CmdDetach
    \/ CmdQuit

SpecSave == Init /\ [][NextSave]_vars

(***************************************************************************)
(* normalizeConfig alone: one call on any of the values.                   *)
(***************************************************************************)
NormalizeConfig(raw) ==
    /\ call.fn = "none"
    /\ call' = [fn |-> "normalizeConfig", in |-> raw, out |-> normalizeConfig(raw)]
    /\ UNCHANGED <<coreVars, sessionVars, image, ppu, mmc1, cpu, overlay>>

\* normalizeConfig is applied once to the value read from the file.
PendingConfigs == IF call.fn = "none" THEN RawConfigs ELSE {}

NextConfig == \E raw \in PendingConfigs : NormalizeConfig(raw)

SpecConfig == InitCore /\ [][NextConfig]_vars

(***************************************************************************)
(* The overlay component: one component from attachSession to its          *)
(* disposal.  The TUI delivers keys while it is attached, may render it    *)
(* until it is disposed, and disposes it after onDetach or onQuit.         *)
(***************************************************************************)
OverlayOpen(rendererMode) ==
    /\ overlay.state = "none"
    /\ overlay' = NewNesOverlayComponent(rendererMode)
    /\ UNCHANGED <<coreVars, sessionVars, image, ppu, mmc1, cpu, call>>

OverlayKey(button, released) ==
    /\ overlay.state = "attached"
    /\ overlay' = handleInputButton(overlay, button, released)
    /\ UNCHANGED <<coreVars, sessionVars, image, ppu, mmc1, cpu, call>>

OverlayClose(key) ==
    /\ overlay.state = "attached"
    /\ LET c == handleInputClose(overlay, image, key)
       IN overlay' = c.o /\ image' = c.r
    /\ UNCHANGED <<coreVars, sessionVars, ppu, mmc1, cpu, call>>

OverlayTapTimer(button) ==
    /\ button \in overlay.tapTimers
    /\ overlay' = tapTimerFires(overlay, button)
    /\ UNCHANGED <<coreVars, sessionVars, image, ppu, mmc1, cpu, call>>

OverlayDispose ==
    /\ overlay.state = "closed"
    /\ LET c == componentDispose(overlay, image)
       IN overlay' = c.o /\ image' = c.r
    /\ UNCHANGED <<coreVars, sessionVars, ppu, mmc1, cpu, call>>

OverlayRender(caps, loads, made) ==
    /\ overlay.state \in {"attached", "closed"}
    /\ image.created < MaxHandles
    /\ image' = componentRender(overlay, image, caps, loads, made)
    /\ UNCHANGED <<coreVars, sessionVars, ppu, mmc1, cpu, call, overlay>>

NextOverlayInput ==
    \/ \E rendererMode \in Renderers : OverlayOpen(rendererMode)
    \/ \E button \in NesButtons, released \in BOOLEAN : OverlayKey(button, released)
    \/ \E key \in {"ctrl+q", "q"} : OverlayClose(key)
    \/ \E button \in TapButtons : OverlayTapTimer(button)
    \/ OverlayDispose

SpecOverlayInput == InitCore /\ [][NextOverlayInput]_vars

NextOverlayImage ==
    \/ \E rendererMode \in Renderers : OverlayOpen(rendererMode)
    \/ \E caps \in Caps, loads \in BOOLEAN, made \in CreateOutcomes :
          OverlayRender(caps, loads, made)
    \/ \E key \in {"ctrl+q", "q"} : OverlayClose(key)
    \/ OverlayDispose

SpecOverlayImage == InitCore /\ [][NextOverlayImage]_vars

(***************************************************************************)
(* Claims about the core wrapper, checked under SpecCore                   *)
(***************************************************************************)

\* C1 (as stated): once isSramDirty() is true, only markSramSaved makes it
\* false; tick, setButton, getSram, setSram, reset and loadRom keep it true.
C1_OnlyMarkSavedClears ==
    [][\A k \in HostCores :
         (isSramDirty(cores[k]) /\ ~isSramDirty(cores'[k]))
            => (lastOp'.op = "markSramSaved" /\ lastOp'.core = k)]_vars

\* C1 (amended): once isSramDirty() is true it stays true across tick,
\* setButton, getSram and reset; it becomes false only by markSramSaved,
\* setSram or loadRom on that core.
C1_DirtyClearedOnlyByAckSetOrLoad ==
    [][\A k \in HostCores :
         (isSramDirty(cores[k]) /\ ~isSramDirty(cores'[k]))
            => (lastOp'.op \in {"markSramSaved", "setSram", "loadRom"} /\ lastOp'.core = k)]_vars

C1_Witness ==
    /\ lastOp.op = "reset"
    /\ isSramDirty(cores[lastOp.core])

\* C2: on a battery-backed cartridge isSramDirty() is true after a tick in
\* which the CPU wrote to an address in 0x6000-0x7FFF, and false right after
\* markSramSaved().
C2_DirtyAfterWriteCleanAfterAck ==
    /\ (lastOp.op = "tick" /\ lastOp.hit /\ cores[lastOp.core].hasBatteryRam)
          => isSramDirty(cores[lastOp.core])
    /\ lastOp.op = "markSramSaved" => ~isSramDirty(cores[lastOp.core])

C2_Witness ==
    /\ lastOp.op = "tick"
    /\ lastOp.hit
    /\ isSramDirty(cores[lastOp.core])
    /\ cores[lastOp.core].sram.cell[SRAM_SIZE - 1] = 2

\* C3: when a core that loaded the same battery-backed ROM is given, by
\* setSram, the buffer S another core returned from getSram(), its own
\* getSram() then equals S: same length, same bytes.
C3_SramRoundTrip ==
    (/\ lastOp.op = "setSram"
     /\ lastOp.src # 0
     /\ romOf[lastOp.src] # NoRom
     /\ romOf[lastOp.core] = romOf[lastOp.src])
       => /\ ~getSram(cores[lastOp.core]).isNull
          /\ getSram(cores[lastOp.core]).length = getSram(cores[lastOp.src]).length
          /\ getSram(cores[lastOp.core]).cell = getSram(cores[lastOp.src]).cell

C3_Witness ==
    /\ lastOp.op = "setSram"
    /\ lastOp.src # 0
    /\ romOf[lastOp.core] = romOf[lastOp.src]
    /\ getSram(cores[lastOp.core]).cell[SRAM_SIZE - 1] = 2
    /\ getSram(cores[lastOp.core]).cell[0] = 1

C13_ResetKeepsSram ==
    [][\A k \in HostCores :
         (lastOp'.op = "reset" /\ lastOp'.core = k)
            => /\ getSram(cores'[k]).isNull = getSram(cores[k]).isNull
               /\ getSram(cores'[k]).length = getSram(cores[k]).length
               /\ \A o \in DOMAIN getSram(cores[k]).cell :
                     getSram(cores'[k]).cell[o] = getSram(cores[k]).cell[o]]_vars

C13_Witness ==
    /\ lastOp.op = "reset"
    /\ ~getSram(cores[lastOp.core]).isNull
    /\ getSram(cores[lastOp.core]).cell[0] = 2
    /\ getSram(cores[lastOp.core]).cell[SRAM_SIZE - 1] = 1

(***************************************************************************)
(* Claims about the session and the handlers, checked under Spec           *)
(***************************************************************************)
SameBytes(a, b) == ~a.isNull /\ ~b.isNull /\ a.length = b.length /\ a.cell = b.cell

TimersRunning(k) == sessions[k].tickTimer \/ sessions[k].saveTimer

\* Session k is fully stopped: timers cleared (so no further core.tick),
\* core disposed, and activeSession no longer refers to it.
FullyStopped(k) ==
    /\ ~sessions[k].tickTimer
    /\ ~sessions[k].saveTimer
    /\ cores[k].disposed
    /\ activeSession # k

\* C4 (as stated): whenever stop() disposes the core of a session with
\* battery-backed SRAM, the save file holds the core's SRAM at that moment,
\* whether the session was idle or had a periodic save in flight.
C4_SaveFlushedBeforeDispose ==
    [][\A k \in CoreIds :
         (sessions[k].exists /\ cores[k].hasBatteryRam
            /\ ~cores[k].disposed /\ cores'[k].disposed)
         => SameBytes(files'[getSavePath(SaveDir, sessions[k].romPath)], cores'[k].sram)]_vars

C6_QuitOrShutdownStops ==
    /\ (cmd.quit /\ cmd.pc = "idle" /\ sessions[cmd.sess].save = "idle")
          => FullyStopped(cmd.sess)
    /\ (shut = "done" /\ hist.shutSess # NoSession
          /\ sessions[hist.shutSess].save = "idle" /\ cmd.pc = "idle")
          => FullyStopped(hist.shutSess)

\* C7: the Ctrl+Q step clears the render hook and leaves activeSession, the
\* session's timers and stopping flag, and the core as they were.
C7_DetachKeepsSessionRunning ==
    [][(cmd.pc = "attached" /\ cmd'.pc = "idle" /\ cmd'.result = "detached")
         => /\ activeSession' = activeSession
            /\ ~sessions'[cmd.sess].renderHook
            /\ sessions'[cmd.sess].tickTimer = sessions[cmd.sess].tickTimer
            /\ sessions'[cmd.sess].saveTimer = sessions[cmd.sess].saveTimer
            /\ sessions'[cmd.sess].stopping = sessions[cmd.sess].stopping
            /\ cores' = cores]_vars

C7_Witness ==
    /\ cmd.pc = "idle"
    /\ cmd.result = "detached"
    /\ cmd.sess # NoSession
    /\ activeSession = cmd.sess
    /\ sessions[cmd.sess].tickTimer
    /\ sessions[cmd.sess].saveTimer
    /\ ~sessions[cmd.sess].renderHook
    /\ cores[cmd.sess].ticked

\* C8: /nes without a ROM argument, run while a session is active, attaches
\* to that session and makes no createNesCore, loadRom or setSram call.
C8_ReattachReusesSession ==
    (cmd.arg = NoRom /\ cmd.active1 # NoSession /\ hist.nCmd > 0)
       => /\ cmd.path = "reattach"
          /\ cmd.sess = cmd.active1
          /\ Calls = cmd.calls0
          /\ cmd.pc = "attached" => sessions[cmd.sess].renderHook

C8_Witness ==
    /\ cmd.path = "reattach"
    /\ cmd.pc = "attached"
    /\ cmd.sess = activeSession
    /\ cores[cmd.sess].ticked
    /\ hist.nCreate = 1

C10_SramRestoredBeforeStart ==
    /\ \A k \in CoreIds :
          sessions[k].exists
             => /\ ~sessions[k].tickedAtStart
                /\ (~sessions[k].fileAtCreate.isNull /\ cores[k].hasBatteryRam)
                      => /\ ~sessions[k].sramAtStart.isNull
                         /\ \A o \in DOMAIN sessions[k].sramAtStart.cell :
                               o < sessions[k].fileAtCreate.length
                                  => sessions[k].sramAtStart.cell[o]
                                        = sessions[k].fileAtCreate.cell[o]
    /\ cmd.pc = "loadSram"
          => (~cores[cmd.core].ticked /\ ~sessions[cmd.core].exists)

C10_Witness ==
    \E k \in CoreIds :
        /\ sessions[k].exists
        /\ ~sessions[k].fileAtCreate.isNull
        /\ sessions[k].sramAtStart.cell[SRAM_SIZE - 1] = 1
        /\ cores[k].ticked

\* The ways createSession reports an error and returns null.
CreateFailures == {"readFailed", "coreFailed", "loadFailed"}

\* C12: createSession ends either with an error reported, null returned, no
\* timer started and activeSession still null, or with a started session
\* whose core loaded the ROM; it starts a session only when reading the ROM,
\* creating the core and loadRom all succeeded.
C12_CreateSessionAllOrNothing ==
    [][/\ (cmd.pc = "readRom" /\ cmd'.pc = "idle")
             => /\ cmd'.result \in CreateFailures
                /\ sessions' = sessions
                /\ activeSession = NoSession
                /\ activeSession' = NoSession
       /\ (cmd.pc = "readRom" /\ cmd'.pc = "loadSram")
             => /\ RomLoads(cmd.romPath)
                /\ romOf'[cmd'.core] = cmd.romPath
                /\ ~cores'[cmd'.core].disposed
       /\ (cmd.pc = "loadSram" /\ cmd'.pc # "loadSram")
             => /\ cmd'.pc = "attached"
                /\ romOf[cmd'.sess] = cmd.romPath
                /\ RomLoads(cmd.romPath)
                /\ sessions'[cmd'.sess].tickTimer
                /\ sessions'[cmd'.sess].saveTimer
                /\ activeSession' = cmd'.sess]_vars

C12_Witness ==
    /\ cmd.pc = "idle"
    /\ cmd.result = "loadFailed"
    /\ activeSession = NoSession
    /\ hist.nCreate = 2
    /\ cores[2].disposed
    /\ \A k \in CoreIds : ~TimersRunning(k)

(***************************************************************************)
(* Claims about the tick loop, checked under SpecTick                      *)
(***************************************************************************)

\* C14: a timer tick calls core.tick min(floor(accumulatedTime /
\* frameIntervalMs), maxCatchUpFrames) times (fewer only when a call throws),
\* so never more than maxCatchUpFrames times.
C14_FramesPerTickCapped ==
    \A k \in CoreIds :
        sessions[k].exists
           => LET lt == sessions[k].lastTick
                  due == lt.acc \div DEFAULT_FRAME_INTERVAL_MS
                  expected == Min(due, DEFAULT_MAX_CATCH_UP_FRAMES)
              IN /\ lt.frames <= DEFAULT_MAX_CATCH_UP_FRAMES
                 /\ lt.frames <= expected
                 /\ ~lt.threw => lt.frames = expected

C14_Witness ==
    \E k \in CoreIds :
        /\ sessions[k].exists
        /\ sessions[k].lastTick.acc > DEFAULT_MAX_CATCH_UP_FRAMES * DEFAULT_FRAME_INTERVAL_MS
        /\ sessions[k].lastTick.frames = DEFAULT_MAX_CATCH_UP_FRAMES
        /\ ~sessions[k].lastTick.threw

\* C15: when a tick calls the render hook, at least renderIntervalMs has
\* passed since the hook's previous call (or since start()); a tick calls it
\* at most once.
C15_RenderThrottled ==
    \A k \in CoreIds :
        (sessions[k].exists /\ sessions[k].lastTick.rendered)
           => /\ sessions[k].lastTick.gap >= sessions[k].lastTick.interval
              /\ sessions[k].lastTick.interval
                    \in {IMAGE_RENDER_INTERVAL_MS, TEXT_RENDER_INTERVAL_MS}
              /\ sessions[k].sinceRender = 0 \/ sessions[k].stopping

C15_Witness ==
    \E k \in CoreIds :
        /\ sessions[k].exists
        /\ sessions[k].lastTick.rendered
        /\ sessions[k].lastTick.interval = IMAGE_RENDER_INTERVAL_MS
        /\ sessions[k].lastTick.gap = IMAGE_RENDER_INTERVAL_MS
        /\ sessions[k].lastTick.acc = DEFAULT_FRAME_INTERVAL_MS

(***************************************************************************)
(* Claims about the renderer, checked under SpecImage                      *)
(***************************************************************************)

\* C16: a frame goes out by shared memory exactly when the terminal is Kitty,
\* the kitty-shm module is available and a handle of full frame size was
\* created for it; any other frame on Kitty goes out by the file transport
\* and every frame on another terminal as PNG; after a failure has disabled
\* shared memory no frame uses it, or tries to, until dispose().
C16_TransportFallback ==
    LET f == image.frame
    IN f.transport # "none"
         => /\ f.caps # "kitty" => f.transport = "png"
            /\ f.caps = "kitty" => f.transport \in {"shm", "file"}
            /\ f.transport = "shm"
                  <=> /\ f.caps = "kitty"
                      /\ image.kittyShmModule = "module"
                      /\ f.create = "full"
            /\ f.disabledBefore => (f.transport # "shm" /\ f.create = "notTried")
            /\ (f.caps = "kitty" /\ f.transport = "file") => image.sharedMemoryDisabled

C16_Witness ==
    /\ image.frame.caps = "kitty"
    /\ image.frame.transport = "file"
    /\ image.frame.disabledBefore
    /\ image.kittyShmModule = "module"
    /\ image.closed = {}
    /\ Len(image.sharedMemoryQueue) = 2

\* C17: a shared-memory frame is written to the handle created for it, which
\* no earlier frame used and which has not been closed; the queue never holds
\* more than two handles, none of them closed; a frame that finds two handles
\* in the queue closes the older one and keeps the newer one.
C17_SharedMemoryQueue ==
    LET f == image.frame
        q == image.sharedMemoryQueue
    IN /\ Len(q) <= 2
       /\ \A i \in 1..Len(q) : q[i] \notin image.closed
       /\ f.transport = "shm"
            => /\ f.handle = image.created
               /\ f.handle \notin image.closed
               /\ \A i \in 1..Len(f.queueBefore) : f.queueBefore[i] # f.handle
               /\ Len(q) >= 1 /\ q[Len(q)] = f.handle
               /\ Len(f.queueBefore) = 2
                     => /\ f.queueBefore[1] \in image.closed
                        /\ q = <<f.queueBefore[2], f.handle>>
               /\ Len(f.queueBefore) < 2 => q = Append(f.queueBefore, f.handle)

C17_Witness ==
    /\ image.frame.transport = "shm"
    /\ Len(image.frame.queueBefore) = 2
    /\ image.frame.queueBefore[1] \in image.closed
    /\ Len(image.sharedMemoryQueue) = 2

(***************************************************************************)
(* Claims about the emulation core, checked under SpecPpu and SpecMmc1     *)
(***************************************************************************)

AtOrPastVblank ==
    \/ ppu.scanline > VBLANK_SCANLINE
    \/ ppu.scanline = VBLANK_SCANLINE /\ ppu.dot >= VBLANK_DOT

\* C19: in every frame no NMI is raised before scanline 241 dot 1; from that
\* dot to the end of the frame exactly one NMI has been raised if NMI was
\* enabled when the dot was reached, and none if it was disabled by then.
C19_NmiOncePerFrame ==
    /\ ppu.nmiCount <= 1
    /\ ~AtOrPastVblank => ppu.nmiCount = 0
    /\ AtOrPastVblank => (ppu.nmiCount = 1 <=> ppu.enabledAtVblank)

C19_Witness ==
    /\ ppu.scanline = LAST_SCANLINE
    /\ ppu.dot = DOTS_PER_SCANLINE - 1
    /\ ppu.enabledAtVblank
    /\ ppu.nmiCount = 1
    /\ ~ppu.nmiEnabled

RECURSIVE BitsValue(_)
BitsValue(bits) ==
    IF bits = <<>> THEN 0 ELSE Head(bits) + 2 * BitsValue(Tail(bits))

\* C20: the first to fourth write of a serial sequence leave every MMC1
\* register as it was and only add their bit to the shift register; the
\* fifth write stores the five bits in the register it addresses and changes
\* no other; a register changes only on a fifth write or a reset.
C20_Mmc1CommitsOnFifthWrite ==
    [][mmc1' # mmc1
         => LET w == mmc1'.lastWrite
            IN /\ w.n \in 1..4
                    => /\ mmc1'.regs = mmc1.regs
                       /\ Len(w.bits) = w.n
                       /\ mmc1'.shift = BitsValue(w.bits)
               /\ w.n = 5
                    => /\ Len(w.bits) = 5
                       /\ mmc1'.regs = [mmc1.regs EXCEPT ![w.addr] = BitsValue(w.bits)]
               /\ mmc1'.regs # mmc1.regs => w.n \in {0, 5}]_vars

C20_Witness ==
    /\ mmc1.lastWrite.n = 5
    /\ mmc1.lastWrite.addr = 3
    /\ mmc1.lastWrite.bits = <<1, 0, 1, 0, 1>>
    /\ mmc1.regs[3] = 21
    /\ mmc1.regs[0] = 12

(***************************************************************************)
(* Claims about the CPU's interrupts, checked under SpecCpuInt             *)
(***************************************************************************)

C22_IFlagGatesIrqOnly ==
    cpu.sampled.I
        => /\ cpu.serviced # "irq"
           /\ cpu.sampled.nmi => cpu.serviced = "nmi"
           /\ ~cpu.sampled.nmi => cpu.serviced = "none"

C22_Witness ==
    /\ cpu.sampled.I /\ cpu.sampled.irq /\ cpu.sampled.nmi
    /\ cpu.serviced = "nmi"
    /\ cpu.irqPending

(***************************************************************************)
(* Claims about sprite DMA, checked under SpecDma                          *)
(***************************************************************************)

C24_DispatchTotal ==
    /\ ~cpu.fault
    /\ cpu.opcode \in Opcodes \cup {NoOpcode}
    /\ \A opcode \in Opcodes : ENABLED CpuStep(opcode, 2)

C24_Witness ==
    /\ cpu.opcode = 2
    /\ cpu.opcode \notin OfficialOpcodes
    /\ ~cpu.fault
    /\ cpu.cycle = 1

(***************************************************************************)
(* Claims about the native core wrapper's buttons, checked under           *)
(* SpecButtons                                                             *)
(***************************************************************************)

\* The index table of the binding's pressButton(n) / releaseButton(n).
DocumentedButtonIndex(button) ==
    CASE button = "select" -> 0
      [] button = "start" -> 1
      [] button = "a" -> 2
      [] button = "b" -> 3
      [] button = "up" -> 4
      [] button = "down" -> 5
      [] button = "left" -> 6
      [] button = "right" -> 7

\* C25: setButton calls pressButton when pressed and releaseButton otherwise,
\* with the documented index of the button; the indices the native core
\* holds down are those of the buttons the host holds down, one for each.
C25_ButtonIndices ==
    call.fn = "setButton"
        => LET button == call.in[1]
               pressed == call.in[2]
               hostHeld == call.in[3]
               nes == call.out
           IN /\ nes.index = DocumentedButtonIndex(button)
              /\ nes.method = IF pressed THEN "pressButton" ELSE "releaseButton"
              /\ nes.held = {DocumentedButtonIndex(b) : b \in hostHeld}
              /\ Cardinality(nes.held) = Cardinality(hostHeld)

C25_Witness ==
    /\ call.fn = "setButton"
    /\ call.in[1] = "a" /\ ~call.in[2]
    /\ call.in[3] = NesButtons \ {"a"}
    /\ call.out.held = (0..7) \ {2}
    /\ call.out.method = "releaseButton"

(***************************************************************************)
(* Claims about getSavePath, checked under SpecSavePath                    *)
(***************************************************************************)

C27_NormalizeConfigValid ==
    call.fn = "normalizeConfig"
        => LET config == call.out
               scale == Field(call.in, "pixelScale")
           IN /\ config.renderer \in {"image", "text"}
              /\ config.imageQuality \in {"balanced", "high"}
              /\ config.videoFilter
                    \in {"off", "ntsc-composite", "ntsc-svideo", "ntsc-rgb"}
              /\ config.pixelScale >= 5 /\ config.pixelScale <= 40
              /\ scale.t # "number" => config.pixelScale = 10
              /\ config.enableAudio \in BOOLEAN
              /\ \A button \in NesButtons :
                    /\ button \in DOMAIN config.keybindings
                    /\ \A i \in 1..Len(config.keybindings[button]) :
                          config.keybindings[button][i].t = "string"

C27_Witness ==
    /\ call.fn = "normalizeConfig"
    /\ call.in.t = "object"
    /\ Field(call.in, "pixelScale") = Num(100)
    /\ call.out.pixelScale = 40
    /\ Field(call.in, "keybindings").t = "object"
    /\ "up" \in DOMAIN Field(call.in, "keybindings").v
    /\ call.out.keybindings["up"] = <<>>
    /\ call.out.keybindings["a"] = DEFAULT_INPUT_MAPPING["a"]
    /\ call.out.videoFilter = "off"
    /\ Field(call.in, "videoFilter") = Str("crt")

(***************************************************************************)
(* Claims about saving while the game runs, checked under SpecSave         *)
(***************************************************************************)

\* C28 (as stated): when a save has completed, so that isSramDirty() is
\* false and no save is in flight, the save file holds the core's current
\* SRAM: a write made while the save was in flight is not lost.
C28_NoLostUpdate ==
    [][\A k \in CoreIds :
         (sessions[k].exists /\ sessions[k].save = "written"
            /\ sessions'[k].save = "idle")
         => ((~isSramDirty(cores'[k]) /\ ~sessions'[k].saveInFlight)
               => SameBytes(files'[getSavePath(SaveDir, sessions[k].romPath)],
                            cores'[k].sram))]_vars

(***************************************************************************)
(* Claims about session_shutdown racing with the /nes handler, checked     *)
(* under Spec                                                              *)
(***************************************************************************)

\* C29 (as stated): when session_shutdown has been handled while the /nes
\* handler was awaiting attachSession, the handler's quit path finds
\* activeSession not null, and it is the attached session, which is stopped.
C29_QuitPathAfterShutdown ==
    [][(cmd.pc = "attached" /\ cmd'.quit /\ shut # "idle")
         => /\ activeSession # NoSession
            /\ activeSession = cmd.sess
            /\ sessions'[cmd.sess].stopping]_vars


\* C30 (as stated): once the session_shutdown handler has completed, no
\* session has its tick timer or its save timer set, wherever the /nes
\* handler was when the event arrived.
C30_NoTimersAfterShutdown ==
    shut = "done" => \A k \in CoreIds : ~TimersRunning(k)

(***************************************************************************)
(* Claims about stop(), failing ticks and failing saves, checked under     *)
(* Spec                                                                    *)
(***************************************************************************)

\* C31 (as stated): once stop() has disposed the core, the session calls no
\* method of it: no tick changes it, and no save that was in flight when
\* stop() was called resumes and calls markSramSaved on it.
C31_NoCoreCallAfterDispose ==
    [][\A k \in CoreIds :
         (sessions[k].exists /\ cores[k].disposed)
            => /\ cores'[k] = cores[k]
               /\ ~(sessions[k].save = "written" /\ sessions'[k].save = "idle")]_vars


\* C32 (as stated): a timer tick in which core.tick throws stops the session
\* (timers cleared, a save in flight or the core disposed at once); no later
\* tick runs the core; and when the forced save of that stop() settles, the
\* core is disposed and no rejection is left unhandled.
C32_ThrowingTickStopsSession ==
    [][\A k \in CoreIds :
         /\ (~sessions[k].lastTick.threw /\ sessions'[k].lastTick.threw)
               => /\ sessions'[k].stopping
                  /\ ~sessions'[k].tickTimer /\ ~sessions'[k].saveTimer
                  /\ sessions'[k].saveInFlight \/ cores'[k].disposed
         /\ sessions[k].lastTick.threw
               => /\ sessions'[k].lastTick = sessions[k].lastTick
                  /\ cores'[k].sram = cores[k].sram
         /\ (sessions[k].lastTick.threw /\ sessions[k].stopCaller = "void"
               /\ sessions[k].saveInFlight /\ ~sessions'[k].saveInFlight)
               => /\ cores'[k].disposed
                  /\ hist'.unhandled => hist.unhandled]_vars


\* C33 (as stated): when saveSram fails, markSramSaved is not called and
\* saveInFlight is false again, so that a dirty core whose save timer is set
\* starts a save at the next period; and a stop() that was awaiting the save
\* goes on to dispose the core.
C33_FailedSaveRetriedAndStopDisposes ==
    [][\A k \in CoreIds :
         (sessions[k].save = "pending" /\ sessions'[k].save = "idle")
         => /\ cores'[k].sramDirty = cores[k].sramDirty
            /\ ~sessions'[k].saveInFlight
            /\ (isSramDirty(cores[k]) /\ sessions'[k].saveTimer)
                  => saveIfNeeded(sessions'[k], cores'[k], FALSE).started
            /\ sessions[k].saveForced => cores'[k].disposed]_vars

(***************************************************************************)
(* Claims about the overlay component, checked under SpecOverlayInput and  *)
(* SpecOverlayImage                                                        *)
(***************************************************************************)

\* C34 (as stated): once the component gets no more input (detached, quit
\* or disposed) and none of its release timers is pending, every button it
\* pressed has been released.
C34_PressedButtonsReleased ==
    (overlay.state \in {"closed", "disposed"} /\ overlay.tapTimers = {})
       => overlay.pressed = {}


\* C35 (as stated): once the component has been disposed, every
\* shared-memory handle its renderer created has been closed.
C35_AllHandlesClosed ==
    overlay.state = "disposed" => image.closed = 1..image.created

====
